---- MODULE Spec2Model ----
(***************************************************************************)
(* Model of the rover telemetry / video relay backend (server.js and its   *)
(* video-streaming revision).  JavaScript values are modelled as tagged    *)
(* records so that absent fields, falsy values and property access behave  *)
(* as they do in the interpreter.                                          *)
(***************************************************************************)
EXTENDS Integers, Sequences, FiniteSets, TLC

(***************************************************************************)
(* Bounds of the model.                                                    *)
(***************************************************************************)
\* channel (socket.io) connections that may ever be opened in a behaviour
MaxSockets == 2
\* ingest events (legacy POST or sensorData) handled in a behaviour
MaxIngest == 2

\* of those, the connections that may be opened while the whole range of
\* ingest inputs is explored (specification Spec)
MaxProducers == 1

\* HTTP video consumers (GET /api/video-stream, GET /api/video-mjpeg) that
\* may ever connect in a behaviour
MaxClients == 3
\* upload requests (POST /api/video-upload, POST /api/video-mjpeg)
MaxUploads == 2
\* body chunks received in a behaviour, over all uploads
MaxChunks == 2
\* of the consumers, those that may connect to the raw byte-stream relay
\* (specification SpecStream)
MaxStreamClients == 2
\* of the uploads, those made while every consumer's connect, failure and
\* close is explored (specifications SpecMjpeg, SpecStream)
MaxFrames == 1
\* POST /api/car/control requests handled in a behaviour
MaxCommands == 1
\* registerCar events handled in a behaviour
MaxRegister == 2
\* carHeartbeat events handled in a behaviour
MaxHeartbeats == 1
\* pieces a mime type or a payload of a data URL is made of
MaxPartLen == 2
\* events other than connect, registerCar and disconnect handled while the
\* producer registry is watched (specification SpecEviction)
MaxOtherEvents == 1
\* transcoder processes that may ever be spawned in a behaviour
MaxProcs == 4

SocketIds == 1..MaxSockets
ClientIds == 1..MaxClients
UploadIds == 1..MaxUploads
ProducerIds == 1..MaxProducers
StreamClientIds == 1..MaxStreamClients
FrameIds == 1..MaxFrames
ProcIds == 1..MaxProcs

(***************************************************************************)
(* JavaScript values.                                                      *)
(***************************************************************************)
Undef == [t |-> "undefined"]
Null == [t |-> "null"]
Num(n) == [t |-> "number", n |-> n]
Str(s) == [t |-> "string", s |-> s]
\* an object is a function from its own property names to values
Obj(f) == [t |-> "object", f |-> f]
\* a Date holding the instant d; Date(NaN), the "Invalid Date", holds -1
Date(d) == [t |-> "date", d |-> d]
InvalidDate == Date(-1)

\* ToBoolean of the language: undefined, null, "", 0 are falsy
Truthy(v) ==
    /\ v.t \notin {"undefined", "null"}
    /\ ~(v.t = "string" /\ v.s = "")
    /\ ~(v.t = "number" /\ v.n = 0)

\* o.k for a value o that is neither undefined nor null
Get(o, k) == IF o.t = "object" /\ k \in DOMAIN o.f THEN o.f[k] ELSE Undef

\* o.k raises a TypeError when o is undefined or null
GetThrows(o) == o.t \in {"undefined", "null"}

\* { ...a, ...b } for an object a (or undefined/null, which spread to nothing)
Spread(a, b) ==
    LET fa == IF a.t = "object" THEN a.f ELSE <<>>
    IN  Obj([k \in (DOMAIN fa) \cup (DOMAIN b.f) |->
                IF k \in DOMAIN b.f THEN b.f[k] ELSE fa[k]])

\* new Date(v): a number is an instant, undefined or an unparseable string
\* gives the Invalid Date
NewDate(v) == IF v.t = "number" THEN Date(v.n) ELSE InvalidDate

(***************************************************************************)
(* State.                                                                  *)
(***************************************************************************)
VARIABLES
    latestSensorData,   \* the in-memory snapshot (an object)
    carControlStatus,   \* {totalCars, activeCars, lastCommand, lastCommandTime}
    connectedCars,      \* Map socket id -> carInfo, as its entries in insertion order
    sockets,            \* socket id -> "new" | "connected" | "disconnected"
    inbox,              \* socket id -> events the server has sent to it
    now,                \* the server clock read by new Date()
    crashed,            \* an exception escaped a handler: the process is gone
    nIngest,            \* ingest events handled so far
    last,               \* the handler that ran last: its input and its emits
    videoStreamClients, \* Map clientId -> res, as its keys in insertion order
    mjpegClients,       \* array of res
    http,               \* client id -> its route and the state of its connection
    written,            \* client id -> the writes made to its response, in order
    uploads,            \* upload id -> the request's route, state and buffers
    nChunks,            \* video payloads (body chunks, channel frames) received so far
    rtmpProcess,        \* the handle of the transcoder: a process id, or 0 for null
    streamActive,       \* the flag reported by GET /api/stream/status
    procs,              \* process id -> "unspawned" | "running" | "signalled" | "exited"
    nCommands,          \* car-control requests handled so far
    nRegister,          \* registerCar events handled so far
    nHeartbeat,         \* carHeartbeat events handled so far
    analysis            \* the image-analysis request a behaviour follows

ingestVars == <<latestSensorData, carControlStatus, connectedCars, sockets,
                inbox, now, crashed, nIngest>>

videoVars == <<videoStreamClients, mjpegClients, http, written, uploads, nChunks>>

supervisorVars == <<rtmpProcess, streamActive, procs>>

carVars == <<nCommands, nRegister, nHeartbeat>>

aiVars == <<analysis>>

vars == <<ingestVars, last, videoVars, supervisorVars, carVars, aiVars>>

SnapshotFields ==
    {"roverId", "lastUpdate", "status", "temperature", "humidity",
     "airPressure", "batteryLevel", "gpsCoordinates", "acceleration",
     "distanceSensor", "lightLevel", "connectionStatus"}

InitialSensorData ==
    Obj([roverId |-> Str("ROVER-001"),
         lastUpdate |-> Date(0),
         status |-> Str("inactive"),
         temperature |-> Num(0),
         humidity |-> Num(0),
         airPressure |-> Num(0),
         batteryLevel |-> Num(100),
         gpsCoordinates |-> Obj([latitude |-> Num(22), longitude |-> Num(114)]),
         acceleration |-> Obj([x |-> Num(0), y |-> Num(0), z |-> Num(0)]),
         distanceSensor |-> Num(0),
         lightLevel |-> Num(0),
         connectionStatus |-> Str("disconnected")])

InitialCarControlStatus ==
    Obj([totalCars |-> Num(0), activeCars |-> Num(0),
         lastCommand |-> Null, lastCommandTime |-> Null])

NoHandler == [op |-> "none"]

Init ==
    /\ latestSensorData = InitialSensorData
    /\ carControlStatus = InitialCarControlStatus
    /\ connectedCars = <<>>
    /\ sockets = [s \in SocketIds |-> "new"]
    /\ inbox = [s \in SocketIds |-> <<>>]
    /\ now = 0
    /\ crashed = FALSE
    /\ nIngest = 0
    /\ last = NoHandler
    /\ videoStreamClients = <<>>
    /\ mjpegClients = <<>>
    /\ http = [c \in ClientIds |-> [route |-> "none", state |-> "new"]]
    /\ written = [c \in ClientIds |-> <<>>]
    /\ uploads = [u \in UploadIds |->
                    [route |-> "none", state |-> "new", frameData |-> <<>>,
                     totalChunkSize |-> 0]]
    /\ nChunks = 0
    /\ rtmpProcess = 0
    /\ streamActive = FALSE
    /\ procs = [p \in ProcIds |-> "unspawned"]
    /\ nCommands = 0
    /\ nRegister = 0
    /\ nHeartbeat = 0
    /\ analysis = [state |-> "none"]

Connected == {s \in SocketIds : sockets[s] = "connected"}

Event(ev, data) == [ev |-> ev, data |-> data]

\* the emits of one handler, in order: each goes to a set of sockets
Emit(to, ev, data) == [to |-> to, ev |-> ev, data |-> data]

\* mutant: a socket is handed the newest event first
RECURSIVE DeliverNewestFirst(_, _)
DeliverNewestFirst(box, emits) ==
    IF emits = <<>> THEN box
    ELSE DeliverNewestFirst(
             [s \in SocketIds |->
                 IF s \in Head(emits).to
                 THEN <<Event(Head(emits).ev, Head(emits).data)>> \o box[s]
                 ELSE box[s]],
             Tail(emits))

\* events reach a socket in the order in which they were emitted to it
RECURSIVE Deliver(_, _)
Deliver(box, emits) ==
    IF emits = <<>> THEN box
    ELSE Deliver([s \in SocketIds |->
                     IF s \in Head(emits).to
                     THEN Append(box[s], Event(Head(emits).ev, Head(emits).data))
                     ELSE box[s]],
                 Tail(emits))

(***************************************************************************)
(* Inputs.  The k-th ingest event of a behaviour carries readings derived  *)
(* from v = 10 * k, all different from each other and from the readings of *)
(* every other event, so that a field taken from the wrong place shows.    *)
(***************************************************************************)
Reading == 10 * (nIngest + 1)

Restrict(f, keys) == [k \in keys |-> f[k]]

EnvReadings(v) ==
    [temperature |-> Num(v + 1), humidity |-> Num(v + 2), pressure |-> Num(v + 3)]

Accelerometer(v) == Obj([x |-> Num(v + 4), y |-> Num(v + 5), z |-> Num(v + 6)])

\* the environmental sub-object: absent, readings, an error marker beside
\* readings, or a null error field (no error) beside readings
EnvChoices(v) ==
    { Undef,
      Obj(EnvReadings(v)),
      Obj([error |-> Str("sensor read failed")] @@ EnvReadings(v)),
      Obj([error |-> Null] @@ EnvReadings(v)) }

\* the motion sub-object: absent, readings, an error marker beside readings,
\* or an object with neither error nor accelerometer
MotionChoices(v) ==
    { Undef,
      Obj([accelerometer |-> Accelerometer(v)]),
      Obj([error |-> Str("imu read failed"), accelerometer |-> Accelerometer(v)]),
      Obj(<<>>) }

\* fields of the flat shape that the nested shape has no place for
ExtraReadings(v) ==
    [batteryLevel |-> Num(v + 7),
     gpsCoordinates |-> Obj([latitude |-> Num(v + 8), longitude |-> Num(v + 9)]),
     distanceSensor |-> Num(v + 7),
     lightLevel |-> Num(v + 8)]

PacketTime(v) == Num(1000 + v)

NestedPacket(env, motion, v) ==
    Obj([device_id |-> Str("PI-1"), timestamp |-> PacketTime(v),
         environmental |-> env, motion |-> motion] @@ ExtraReadings(v))

BarePacket(v) ==
    Obj([device_id |-> Str("PI-1"),
         environmental |-> Obj(EnvReadings(v)),
         motion |-> Obj([accelerometer |-> Accelerometer(v)])])

NoIdPacket(v) ==
    Obj(Restrict(NestedPacket(Obj(EnvReadings(v)),
                              Obj([accelerometer |-> Accelerometer(v)]), v).f,
                 {"timestamp", "environmental", "motion", "batteryLevel"}))

EmptyIdPacket(v) ==
    Obj([device_id |-> Str(""), timestamp |-> PacketTime(v),
         environmental |-> Obj(EnvReadings(v))])

SensorPackets(v) ==
    { NestedPacket(e, m, v) : e \in EnvChoices(v), m \in MotionChoices(v) }
    \cup { BarePacket(v), NoIdPacket(v), EmptyIdPacket(v), Null, Undef }

\* a flat legacy body mirroring the snapshot, with its own status fields
FlatBody(v) ==
    [roverId |-> Str("ROVER-002"),
     lastUpdate |-> PacketTime(v),
     status |-> Str("warning"),
     temperature |-> Num(v + 1),
     humidity |-> Num(v + 2),
     airPressure |-> Num(v + 3),
     acceleration |-> Accelerometer(v),
     connectionStatus |-> Str("disconnected")] @@ ExtraReadings(v)

LegacyBodies(v) ==
    { Obj(FlatBody(v)),
      Obj(Restrict(FlatBody(v), DOMAIN FlatBody(v) \ {"roverId"})),
      Obj(Restrict(FlatBody(v), {"roverId", "temperature"})),
      Obj(<<>>) }

(***************************************************************************)
(* The ingest normalizer.                                                  *)
(***************************************************************************)
\* mutant: the fixed fields are written first and the body spread over them
LegacySensorDataSpreadLast(sensorData, t) ==
    Spread(Obj([lastUpdate |-> Date(t), status |-> Str("active"),
                connectionStatus |-> Str("connected")]),
           IF sensorData.t = "object" THEN sensorData ELSE Obj(<<>>))

\* mutant: the status fields are written only when the body has none
LegacySensorDataBodyStatus(sensorData, t) ==
    Spread(Spread(Obj([status |-> Str("active"),
                       connectionStatus |-> Str("connected")]),
                  IF sensorData.t = "object" THEN sensorData ELSE Obj(<<>>)),
           Obj([lastUpdate |-> Date(t)]))

\* POST /api/sensors: { ...sensorData, lastUpdate: new Date(), status:
\* "active", connectionStatus: "connected" }
LegacySensorData(sensorData, t) ==
    Spread(sensorData,
           Obj([lastUpdate |-> Date(t), status |-> Str("active"),
                connectionStatus |-> Str("connected")]))

PostSensors(body) ==
    /\ ~crashed
    /\ nIngest < MaxIngest
    /\ LET data == LegacySensorData(body, now + 1)
           emits == <<Emit(Connected, "sensorUpdate", data)>>
       IN  /\ latestSensorData' = data
           /\ inbox' = Deliver(inbox, emits)
           /\ last' = [op |-> "postSensors", input |-> body,
                       pre |-> latestSensorData, emits |-> emits]
    /\ now' = now + 1
    /\ nIngest' = nIngest + 1
    /\ UNCHANGED <<carControlStatus, connectedCars, sockets, crashed>>
    /\ UNCHANGED <<videoVars, supervisorVars, carVars, aiVars>>

\* mutant: only a null or absent packet is turned away
MalformedNullOnly(dataFromPi) == ~Truthy(dataFromPi)

\* if (!dataFromPi || !dataFromPi.device_id) return
Malformed(dataFromPi) ==
    \/ ~Truthy(dataFromPi)
    \/ ~Truthy(Get(dataFromPi, "device_id"))

\* mutant: the error marker of the environmental group is not looked at
HasEnvDataNoErrorTest(dataFromPi) == Truthy(Get(dataFromPi, "environmental"))

\* dataFromPi.environmental && !dataFromPi.environmental.error
HasEnvData(dataFromPi) ==
    /\ Truthy(Get(dataFromPi, "environmental"))
    /\ ~Truthy(Get(Get(dataFromPi, "environmental"), "error"))

\* dataFromPi.motion && !dataFromPi.motion.error
HasMotionData(dataFromPi) ==
    /\ Truthy(Get(dataFromPi, "motion"))
    /\ ~Truthy(Get(Get(dataFromPi, "motion"), "error"))

\* building flattenedData reads motion.accelerometer.x: a TypeError when
\* motion is taken as valid and has no accelerometer
FlattenThrows(dataFromPi) ==
    /\ HasMotionData(dataFromPi)
    /\ GetThrows(Get(Get(dataFromPi, "motion"), "accelerometer"))

\* mutant: the acceleration is chosen by the environmental group's test
FlattenedDataOneTest(dataFromPi, latest) ==
    LET env == Get(dataFromPi, "environmental")
        acc == Get(Get(dataFromPi, "motion"), "accelerometer")
        hasEnvData == HasEnvData(dataFromPi)
    IN  Obj([roverId |-> Get(dataFromPi, "device_id"),
             lastUpdate |-> NewDate(Get(dataFromPi, "timestamp")),
             status |-> Str("active"),
             temperature |-> IF hasEnvData THEN Get(env, "temperature")
                             ELSE Get(latest, "temperature"),
             humidity |-> IF hasEnvData THEN Get(env, "humidity")
                          ELSE Get(latest, "humidity"),
             airPressure |-> IF hasEnvData THEN Get(env, "pressure")
                             ELSE Get(latest, "airPressure"),
             batteryLevel |-> Get(latest, "batteryLevel"),
             gpsCoordinates |-> Get(latest, "gpsCoordinates"),
             distanceSensor |-> Get(latest, "distanceSensor"),
             lightLevel |-> Get(latest, "lightLevel"),
             acceleration |-> IF hasEnvData
                              THEN Obj([x |-> Get(acc, "x"), y |-> Get(acc, "y"),
                                        z |-> Get(acc, "z")])
                              ELSE Get(latest, "acceleration"),
             connectionStatus |-> Str("connected")])

\* mutant: the battery level is taken from the packet when it carries one
FlattenedDataPacketBattery(dataFromPi, latest) ==
    LET env == Get(dataFromPi, "environmental")
        acc == Get(Get(dataFromPi, "motion"), "accelerometer")
        hasEnvData == HasEnvData(dataFromPi)
        hasMotionData == HasMotionData(dataFromPi)
    IN  Obj([roverId |-> Get(dataFromPi, "device_id"),
             lastUpdate |-> NewDate(Get(dataFromPi, "timestamp")),
             status |-> Str("active"),
             temperature |-> IF hasEnvData THEN Get(env, "temperature")
                             ELSE Get(latest, "temperature"),
             humidity |-> IF hasEnvData THEN Get(env, "humidity")
                          ELSE Get(latest, "humidity"),
             airPressure |-> IF hasEnvData THEN Get(env, "pressure")
                             ELSE Get(latest, "airPressure"),
             batteryLevel |-> IF Truthy(Get(dataFromPi, "batteryLevel"))
                              THEN Get(dataFromPi, "batteryLevel")
                              ELSE Get(latest, "batteryLevel"),
             gpsCoordinates |-> Get(latest, "gpsCoordinates"),
             distanceSensor |-> Get(latest, "distanceSensor"),
             lightLevel |-> Get(latest, "lightLevel"),
             acceleration |-> IF hasMotionData
                              THEN Obj([x |-> Get(acc, "x"), y |-> Get(acc, "y"),
                                        z |-> Get(acc, "z")])
                              ELSE Get(latest, "acceleration"),
             connectionStatus |-> Str("connected")])

FlattenedData(dataFromPi, latest) ==
    LET env == Get(dataFromPi, "environmental")
        acc == Get(Get(dataFromPi, "motion"), "accelerometer")
        hasEnvData == HasEnvData(dataFromPi)
        hasMotionData == HasMotionData(dataFromPi)
    IN  Obj([roverId |-> Get(dataFromPi, "device_id"),
             lastUpdate |-> NewDate(Get(dataFromPi, "timestamp")),
             status |-> Str("active"),
             temperature |-> IF hasEnvData THEN Get(env, "temperature")
                             ELSE Get(latest, "temperature"),
             humidity |-> IF hasEnvData THEN Get(env, "humidity")
                          ELSE Get(latest, "humidity"),
             airPressure |-> IF hasEnvData THEN Get(env, "pressure")
                             ELSE Get(latest, "airPressure"),
             batteryLevel |-> Get(latest, "batteryLevel"),
             gpsCoordinates |-> Get(latest, "gpsCoordinates"),
             distanceSensor |-> Get(latest, "distanceSensor"),
             lightLevel |-> Get(latest, "lightLevel"),
             acceleration |-> IF hasMotionData
                              THEN Obj([x |-> Get(acc, "x"), y |-> Get(acc, "y"),
                                        z |-> Get(acc, "z")])
                              ELSE Get(latest, "acceleration"),
             connectionStatus |-> Str("connected")])

\* socket.on('sensorData'): reject, or throw, or install and broadcast
SensorData(s, dataFromPi) ==
    /\ ~crashed
    /\ nIngest < MaxIngest
    /\ sockets[s] = "connected"
    /\ now' = now + 1
    /\ nIngest' = nIngest + 1
    /\ UNCHANGED <<carControlStatus, connectedCars, sockets>>
    /\ UNCHANGED <<videoVars, supervisorVars, carVars, aiVars>>
    /\ IF Malformed(dataFromPi)
       THEN /\ last' = [op |-> "sensorData", socket |-> s, input |-> dataFromPi,
                        pre |-> latestSensorData, emits |-> <<>>,
                        outcome |-> "rejected"]
            /\ UNCHANGED <<latestSensorData, inbox, crashed>>
       ELSE IF FlattenThrows(dataFromPi)
       THEN /\ crashed' = TRUE
            /\ last' = [op |-> "sensorData", socket |-> s, input |-> dataFromPi,
                        pre |-> latestSensorData, emits |-> <<>>,
                        outcome |-> "threw"]
            /\ UNCHANGED <<latestSensorData, inbox>>
       ELSE LET data == FlattenedData(dataFromPi, latestSensorData)
                emits == <<Emit(Connected, "sensorUpdate", data)>>
            IN  /\ latestSensorData' = data
                /\ inbox' = Deliver(inbox, emits)
                /\ last' = [op |-> "sensorData", socket |-> s,
                            input |-> dataFromPi, pre |-> latestSensorData,
                            emits |-> emits, outcome |-> "installed"]
                /\ UNCHANGED crashed

(***************************************************************************)
(* Channel connections.                                                    *)
(***************************************************************************)
\* mutant: the snapshot is sent with io.emit, to every connected socket
ConnectionEmitsToAll(s, latest, status) ==
    <<Emit(Connected \cup {s}, "sensorUpdate", latest),
      Emit({s}, "carStatusUpdate", status)>>

\* mutant: the new socket is sent the car status only
ConnectionEmitsStatusOnly(s, latest, status) ==
    <<Emit({s}, "carStatusUpdate", status)>>

\* io.on('connection'): the new socket alone is sent the snapshot and the
\* car status
ConnectionEmits(s, latest, status) ==
    <<Emit({s}, "sensorUpdate", latest), Emit({s}, "carStatusUpdate", status)>>

\* socket ids are fresh: they are taken in order and never reused
Connect(s) ==
    /\ ~crashed
    /\ sockets[s] = "new"
    /\ \A r \in SocketIds : r < s => sockets[r] # "new"
    /\ sockets' = [sockets EXCEPT ![s] = "connected"]
    /\ LET emits == ConnectionEmits(s, latestSensorData, carControlStatus)
       IN  /\ inbox' = Deliver(inbox, emits)
           /\ last' = [op |-> "connection", socket |-> s,
                       pre |-> latestSensorData, emits |-> emits]
    /\ UNCHANGED <<latestSensorData, carControlStatus, connectedCars, now,
                   crashed, nIngest>>
    /\ UNCHANGED <<videoVars, supervisorVars, carVars, aiVars>>

\* connectedCars.has(id), .delete(id), .size, Array.from(.values())
CarsHas(cars, id) == \E i \in 1..Len(cars) : cars[i].socketId = id

\* mutant: the registry is emptied
CarsDeleteAll(cars, id) == <<>>

CarsDelete(cars, id) == SelectSeq(cars, LAMBDA e : e.socketId # id)

CarsValues(cars) == [i \in 1..Len(cars) |-> cars[i].info]

\* mutant: only totalCars follows the registry
CarCountersTotalOnly(status, cars) ==
    Spread(status, Obj([totalCars |-> Num(Len(cars))]))

\* carControlStatus.totalCars = connectedCars.size;
\* carControlStatus.activeCars = connectedCars.size
CarCounters(status, cars) ==
    Spread(status, Obj([totalCars |-> Num(Len(cars)),
                        activeCars |-> Num(Len(cars))]))

\* { ...carControlStatus, connectedCars: Array.from(connectedCars.values()) }
CarStatusUpdate(status, cars) ==
    [status |-> status, connectedCars |-> CarsValues(cars)]

\* socket.on('disconnect'): a registered car is removed, the counters follow
\* the registry and every remaining socket is told; the socket that left is
\* no longer among the connected ones
Disconnect(s) ==
    /\ ~crashed
    /\ sockets[s] = "connected"
    /\ sockets' = [sockets EXCEPT ![s] = "disconnected"]
    /\ IF CarsHas(connectedCars, s)
       THEN LET cars == CarsDelete(connectedCars, s)
                status == CarCounters(carControlStatus, cars)
                emits == <<Emit(Connected \ {s}, "carStatusUpdate",
                                CarStatusUpdate(status, cars))>>
            IN  /\ connectedCars' = cars
                /\ carControlStatus' = status
                /\ inbox' = Deliver(inbox, emits)
                /\ last' = [op |-> "disconnect", socket |-> s,
                            pre |-> latestSensorData, emits |-> emits,
                            carsBefore |-> connectedCars,
                            statusBefore |-> carControlStatus]
       ELSE /\ last' = [op |-> "disconnect", socket |-> s,
                        pre |-> latestSensorData, emits |-> <<>>,
                        carsBefore |-> connectedCars,
                        statusBefore |-> carControlStatus]
            /\ UNCHANGED <<connectedCars, carControlStatus, inbox>>
    /\ UNCHANGED <<latestSensorData, now, crashed, nIngest>>
    /\ UNCHANGED <<videoVars, supervisorVars, carVars, aiVars>>

\* Ingest normalizer: every input shape, few connections.
Next ==
    \/ \E s \in ProducerIds : Connect(s)
    \/ \E s \in ProducerIds : Disconnect(s)
    \/ \E body \in LegacyBodies(Reading) : PostSensors(body)
    \/ \E s \in ProducerIds : \E dataFromPi \in SensorPackets(Reading) :
          SensorData(s, dataFromPi)

Spec == Init /\ [][Next]_vars

\* Fan-out: every connection, a few input shapes.
FanoutBodies(v) == { Obj(FlatBody(v)) }

FanoutPackets(v) ==
    { NestedPacket(Obj(EnvReadings(v)), Undef, v), NoIdPacket(v) }

NextFanout ==
    \/ \E s \in SocketIds : Connect(s)
    \/ \E s \in SocketIds : Disconnect(s)
    \/ \E body \in FanoutBodies(Reading) : PostSensors(body)
    \/ \E s \in SocketIds : \E dataFromPi \in FanoutPackets(Reading) :
          SensorData(s, dataFromPi)

SpecFanout == Init /\ [][NextFanout]_vars


(***************************************************************************)
(* HTTP video relay: long-lived responses and chunked uploads.             *)
(***************************************************************************)
\* what is written to a response: a string, kept as its pieces, or a Buffer
Text(pieces) == [text |-> pieces]
Bytes(b) == [bytes |-> b]

DigitChars == <<"0", "1", "2", "3", "4", "5", "6", "7", "8", "9">>

\* `${n}`: the decimal digits of a length
RECURSIVE Decimal(_)
Decimal(n) ==
    IF n < 10 THEN <<DigitChars[n + 1]>>
    ELSE Decimal(n \div 10) \o <<DigitChars[(n % 10) + 1]>>

\* the k-th body chunk received in a behaviour: a Buffer of 1 or 11 bytes
ChunkLen(k) == IF k % 2 = 1 THEN 1 ELSE 11
Chunk(k) == [i \in 1..ChunkLen(k) |-> (16 * k + i) % 256]

\* client.write(...) throws for a response whose connection is gone
Writable(c) == http[c].state = "open"

\* client ids and upload ids are fresh: taken in order, never reused
FreshClient(c) ==
    /\ http[c].state = "new"
    /\ \A d \in ClientIds : d < c => http[d].state # "new"

FreshUpload(u) ==
    /\ uploads[u].state = "new"
    /\ \A v \in UploadIds : v < u => uploads[v].state # "new"

\* mutant: q.splice(q.indexOf(x), 1), which takes the last element away when
\* x is not there
SeqDeleteSpliceIndexOf(q, x) ==
    IF \E i \in 1..Len(q) : q[i] = x
    THEN SelectSeq(q, LAMBDA y : y # x)
    ELSE SubSeq(q, 1, Len(q) - 1)

\* mutant: nothing is taken out
SeqDeleteNothing(q, x) == q

\* Map.delete(x); array.filter(y => y !== x)
SeqDelete(q, x) == SelectSeq(q, LAMBDA y : y # x)

SeqHas(q, x) == \E i \in 1..Len(q) : q[i] = x

\* array.splice(k, 1), k counted from 1
Splice(q, k) == [i \in 1..(Len(q) - 1) |-> IF i < k THEN q[i] ELSE q[i + 1]]

\* GET /api/video-stream: videoStreamClients.set(clientId, res)
GetVideoStream(c) ==
    /\ FreshClient(c)
    /\ http' = [http EXCEPT ![c] = [route |-> "video-stream", state |-> "open"]]
    /\ videoStreamClients' = Append(videoStreamClients, c)
    /\ last' = [op |-> "getVideoStream", client |-> c]
    /\ UNCHANGED <<mjpegClients, written, uploads, nChunks>>
    /\ UNCHANGED <<ingestVars, supervisorVars, carVars, aiVars>>

\* GET /api/video-mjpeg: mjpegClients.push(res)
GetVideoMjpeg(c) ==
    /\ FreshClient(c)
    /\ http' = [http EXCEPT ![c] = [route |-> "video-mjpeg", state |-> "open"]]
    /\ mjpegClients' = Append(mjpegClients, c)
    /\ last' = [op |-> "getVideoMjpeg", client |-> c]
    /\ UNCHANGED <<videoStreamClients, written, uploads, nChunks>>
    /\ UNCHANGED <<ingestVars, supervisorVars, carVars, aiVars>>

\* the connection of a consumer goes away: from now on a write to it throws;
\* the server has not yet been told
ClientBreak(c) ==
    /\ http[c].state = "open"
    /\ http' = [http EXCEPT ![c].state = "broken"]
    /\ last' = [op |-> "clientBreak", client |-> c]
    /\ UNCHANGED <<videoStreamClients, mjpegClients, written, uploads, nChunks>>
    /\ UNCHANGED <<ingestVars, supervisorVars, carVars, aiVars>>

\* req.on('error') of GET /api/video-stream: videoStreamClients.delete(clientId)
ReqError(c) ==
    /\ http[c].route = "video-stream"
    /\ http[c].state \in {"open", "broken"}
    /\ http' = [http EXCEPT ![c].state = "errored"]
    /\ videoStreamClients' = SeqDelete(videoStreamClients, c)
    /\ last' = [op |-> "reqError", client |-> c,
                streamBefore |-> videoStreamClients, mjpegBefore |-> mjpegClients]
    /\ UNCHANGED <<mjpegClients, written, uploads, nChunks>>
    /\ UNCHANGED <<ingestVars, supervisorVars, carVars, aiVars>>

\* req.on('close'): videoStreamClients.delete(clientId), or
\* mjpegClients = mjpegClients.filter(client => client !== res)
ReqClose(c) ==
    /\ http[c].state \in {"open", "broken", "errored"}
    /\ http' = [http EXCEPT ![c].state = "closed"]
    /\ IF http[c].route = "video-stream"
       THEN /\ videoStreamClients' = SeqDelete(videoStreamClients, c)
            /\ UNCHANGED mjpegClients
       ELSE /\ mjpegClients' = SeqDelete(mjpegClients, c)
            /\ UNCHANGED videoStreamClients
    /\ last' = [op |-> "reqClose", client |-> c,
                streamBefore |-> videoStreamClients, mjpegBefore |-> mjpegClients]
    /\ UNCHANGED <<written, uploads, nChunks>>
    /\ UNCHANGED <<ingestVars, supervisorVars, carVars, aiVars>>

\* POST /api/video-upload arrives: let totalChunkSize = 0
PostVideoUpload(u) ==
    /\ FreshUpload(u)
    /\ uploads' = [uploads EXCEPT ![u] =
                      [route |-> "video-upload", state |-> "receiving",
                       frameData |-> <<>>, totalChunkSize |-> 0]]
    /\ last' = [op |-> "postVideoUpload", upload |-> u]
    /\ UNCHANGED <<videoStreamClients, mjpegClients, http, written, nChunks>>
    /\ UNCHANGED <<ingestVars, supervisorVars, carVars, aiVars>>

\* videoStreamClients.forEach with try { client.write(chunk) } catch
\* { videoStreamClients.delete(clientId) }: a Map's forEach visits every entry
\* present when its turn comes; deleting the entry being visited skips none
RECURSIVE ForwardLoop(_, _, _, _)
ForwardLoop(keys, clients, out, chunk) ==
    IF keys = <<>> THEN [clients |-> clients, written |-> out]
    ELSE LET c == Head(keys)
         IN  IF ~SeqHas(clients, c)
             THEN ForwardLoop(Tail(keys), clients, out, chunk)
             ELSE IF Writable(c)
             THEN ForwardLoop(Tail(keys), clients,
                              [out EXCEPT ![c] = Append(@, Bytes(chunk))], chunk)
             ELSE ForwardLoop(Tail(keys), SeqDelete(clients, c), out, chunk)

\* mutant: the try/catch is around the whole loop, so the first failing write
\* ends the pass
RECURSIVE ForwardLoopAbort(_, _, _, _)
ForwardLoopAbort(keys, clients, out, chunk) ==
    IF keys = <<>> THEN [clients |-> clients, written |-> out]
    ELSE LET c == Head(keys)
         IN  IF Writable(c)
             THEN ForwardLoopAbort(Tail(keys), clients,
                                   [out EXCEPT ![c] = Append(@, Bytes(chunk))],
                                   chunk)
             ELSE [clients |-> SeqDelete(clients, c), written |-> out]

ForwardChunkAbortOnThrow(clients, out, chunk) ==
    ForwardLoopAbort(clients, clients, out, chunk)

\* mutant: a chunk is put in front of what a consumer has been sent
RECURSIVE ForwardLoopPrepend(_, _, _, _)
ForwardLoopPrepend(keys, clients, out, chunk) ==
    IF keys = <<>> THEN [clients |-> clients, written |-> out]
    ELSE LET c == Head(keys)
         IN  IF Writable(c)
             THEN ForwardLoopPrepend(Tail(keys), clients,
                                     [out EXCEPT ![c] = <<Bytes(chunk)>> \o @],
                                     chunk)
             ELSE ForwardLoopPrepend(Tail(keys), SeqDelete(clients, c), out,
                                     chunk)

ForwardChunkPrepend(clients, out, chunk) ==
    ForwardLoopPrepend(clients, clients, out, chunk)

ForwardChunk(clients, out, chunk) == ForwardLoop(clients, clients, out, chunk)

\* req.on('data') of POST /api/video-upload
VideoUploadData(u) ==
    /\ uploads[u].route = "video-upload"
    /\ uploads[u].state = "receiving"
    /\ nChunks < MaxChunks
    /\ nChunks' = nChunks + 1
    /\ LET chunk == Chunk(nChunks + 1)
           done == ForwardChunk(videoStreamClients, written, chunk)
       IN  /\ uploads' = [uploads EXCEPT ![u].totalChunkSize = @ + Len(chunk)]
           /\ videoStreamClients' = done.clients
           /\ written' = done.written
           /\ last' = [op |-> "videoUploadData", upload |-> u, chunk |-> chunk,
                       clientsBefore |-> videoStreamClients,
                       writtenBefore |-> written, inboxBefore |-> inbox]
    /\ UNCHANGED <<mjpegClients, http>>
    /\ UNCHANGED <<ingestVars, supervisorVars, carVars, aiVars>>

\* req.on('end') of POST /api/video-upload: the JSON response
VideoUploadEnd(u) ==
    /\ uploads[u].route = "video-upload"
    /\ uploads[u].state = "receiving"
    /\ uploads' = [uploads EXCEPT ![u].state = "ended"]
    /\ last' = [op |-> "videoUploadEnd", upload |-> u,
                response |-> [success |-> TRUE,
                              clients |-> Len(videoStreamClients),
                              chunkSize |-> uploads[u].totalChunkSize]]
    /\ UNCHANGED <<videoStreamClients, mjpegClients, http, written, nChunks>>
    /\ UNCHANGED <<ingestVars, supervisorVars, carVars, aiVars>>

\* POST /api/video-mjpeg arrives: let frameData = Buffer.alloc(0)
PostVideoMjpeg(u) ==
    /\ FreshUpload(u)
    /\ uploads' = [uploads EXCEPT ![u] =
                      [route |-> "video-mjpeg", state |-> "receiving",
                       frameData |-> <<>>, totalChunkSize |-> 0]]
    /\ last' = [op |-> "postVideoMjpeg", upload |-> u]
    /\ UNCHANGED <<videoStreamClients, mjpegClients, http, written, nChunks>>
    /\ UNCHANGED <<ingestVars, supervisorVars, carVars, aiVars>>

\* Buffer.concat([frameData, chunk])
BufferConcat(frameData, chunk) == frameData \o chunk

\* mutant: frameData is one buffer shared by the uploads in flight
MjpegAccumulateShared(ups, u, chunk) ==
    [v \in DOMAIN ups |->
        IF ups[v].route = "video-mjpeg" /\ ups[v].state = "receiving"
        THEN [ups[v] EXCEPT !.frameData = BufferConcat(@, chunk)]
        ELSE ups[v]]

\* frameData is a variable of the request's own handler call (let frameData)
MjpegAccumulate(ups, u, chunk) ==
    [ups EXCEPT ![u].frameData = BufferConcat(@, chunk)]

\* req.on('data') of POST /api/video-mjpeg:
\* frameData = Buffer.concat([frameData, chunk])
MjpegData(u) ==
    /\ uploads[u].route = "video-mjpeg"
    /\ uploads[u].state = "receiving"
    /\ nChunks < MaxChunks
    /\ nChunks' = nChunks + 1
    /\ uploads' = MjpegAccumulate(uploads, u, Chunk(nChunks + 1))
    /\ last' = [op |-> "mjpegData", upload |-> u, chunk |-> Chunk(nChunks + 1),
                frameBefore |-> uploads[u].frameData,
                writtenBefore |-> written]
    /\ UNCHANGED <<videoStreamClients, mjpegClients, http, written>>
    /\ UNCHANGED <<ingestVars, supervisorVars, carVars, aiVars>>

\* mutant: the blank line after the Content-Length header is left out
MjpegFrameWritesNoBlankLine(frameData) ==
    << Text(<<"--myboundary", "\r\n">>),
       Text(<<"Content-Type: image/jpeg", "\r\n">>),
       Text(<<"Content-Length: ">> \o Decimal(Len(frameData)) \o <<"\r\n">>),
       Bytes(frameData),
       Text(<<"\r\n">>) >>

\* the five writes of one frame
MjpegFrameWrites(frameData) ==
    << Text(<<"--myboundary", "\r\n">>),
       Text(<<"Content-Type: image/jpeg", "\r\n">>),
       Text(<<"Content-Length: ">> \o Decimal(Len(frameData))
            \o <<"\r\n", "\r\n">>),
       Bytes(frameData),
       Text(<<"\r\n">>) >>

\* mjpegClients.forEach((client, index) => { try { five writes } catch
\* { mjpegClients.splice(index, 1) } }): an array's forEach runs the index
\* from 0 to the length it had at the start and skips an index the array no
\* longer has; splice moves the later elements down under the running index
RECURSIVE MjpegForEach(_, _, _, _, _)
MjpegForEach(k, len, clients, out, frameData) ==
    IF k > len THEN [clients |-> clients, written |-> out]
    ELSE IF k > Len(clients)
    THEN MjpegForEach(k + 1, len, clients, out, frameData)
    ELSE IF Writable(clients[k])
    THEN MjpegForEach(k + 1, len, clients,
                      [out EXCEPT ![clients[k]] = @ \o MjpegFrameWrites(frameData)],
                      frameData)
    ELSE MjpegForEach(k + 1, len, Splice(clients, k), out, frameData)

\* req.on('end') of POST /api/video-mjpeg: broadcast, then the JSON response
MjpegEnd(u) ==
    /\ uploads[u].route = "video-mjpeg"
    /\ uploads[u].state = "receiving"
    /\ uploads' = [uploads EXCEPT ![u].state = "ended"]
    /\ LET done == MjpegForEach(1, Len(mjpegClients), mjpegClients, written,
                                uploads[u].frameData)
       IN  /\ mjpegClients' = done.clients
           /\ written' = done.written
           /\ last' = [op |-> "mjpegEnd", upload |-> u,
                       frameData |-> uploads[u].frameData,
                       clientsBefore |-> mjpegClients,
                       writtenBefore |-> written, inboxBefore |-> inbox,
                       response |-> [success |-> TRUE,
                                     clients |-> Len(done.clients),
                                     frameSize |-> Len(uploads[u].frameData)]]
    /\ UNCHANGED <<videoStreamClients, http, nChunks>>
    /\ UNCHANGED <<ingestVars, supervisorVars, carVars, aiVars>>

\* The multipart (MJPEG) relay.
NextMjpeg ==
    \/ \E c \in ClientIds : GetVideoMjpeg(c)
    \/ \E c \in ClientIds : ClientBreak(c)
    \/ \E c \in ClientIds : ReqClose(c)
    \/ \E u \in FrameIds : PostVideoMjpeg(u)
    \/ \E u \in FrameIds : MjpegData(u)
    \/ \E u \in FrameIds : MjpegEnd(u)

SpecMjpeg == Init /\ [][NextMjpeg]_vars

\* Multipart uploads in flight together, their chunks interleaved.
NextInterleave ==
    \/ \E c \in StreamClientIds : GetVideoMjpeg(c)
    \/ \E c \in StreamClientIds : ClientBreak(c)
    \/ \E u \in UploadIds : PostVideoMjpeg(u)
    \/ \E u \in UploadIds : MjpegData(u)
    \/ \E u \in UploadIds : MjpegEnd(u)

SpecInterleave == Init /\ [][NextInterleave]_vars

\* The raw byte-stream relay.
NextStream ==
    \/ \E c \in StreamClientIds : GetVideoStream(c)
    \/ \E c \in StreamClientIds : ClientBreak(c)
    \/ \E c \in StreamClientIds : ReqError(c)
    \/ \E c \in StreamClientIds : ReqClose(c)
    \/ \E u \in FrameIds : PostVideoUpload(u)
    \/ \E u \in FrameIds : VideoUploadData(u)
    \/ \E u \in FrameIds : VideoUploadEnd(u)

SpecStream == Init /\ [][NextStream]_vars

(***************************************************************************)
(* Producer registry and command relay.                                    *)
(***************************************************************************)
\* mutant: every set adds an entry
CarsSetAppend(cars, id, info) == Append(cars, [socketId |-> id, info |-> info])

\* connectedCars.set(id, info): an existing key keeps its place
CarsSet(cars, id, info) ==
    IF CarsHas(cars, id)
    THEN [i \in 1..Len(cars) |->
             IF cars[i].socketId = id THEN [socketId |-> id, info |-> info]
             ELSE cars[i]]
    ELSE Append(cars, [socketId |-> id, info |-> info])

\* the payloads of registerCar: a car with a name, and no payload at all
CarInfos == { Obj([carId |-> Str("CAR-1")]), Undef }

\* socket.on('registerCar'): the entry is set, the counters follow the
\* registry, then the log line reads carInfo.carId, a TypeError when the
\* event came without a payload, and last every socket is told
RegisterCar(s, carInfo) ==
    /\ ~crashed
    /\ sockets[s] = "connected"
    /\ nRegister < MaxRegister
    /\ nRegister' = nRegister + 1
    /\ now' = now + 1
    /\ LET info == Spread(carInfo, Obj([socketId |-> Num(s),
                                        connectedAt |-> Date(now + 1),
                                        lastSeen |-> Date(now + 1)]))
           cars == CarsSet(connectedCars, s, info)
           status == CarCounters(carControlStatus, cars)
           emits == IF GetThrows(carInfo) THEN <<>>
                    ELSE <<Emit(Connected, "carStatusUpdate",
                                CarStatusUpdate(status, cars))>>
       IN  /\ connectedCars' = cars
           /\ carControlStatus' = status
           /\ crashed' = GetThrows(carInfo)
           /\ inbox' = Deliver(inbox, emits)
           /\ last' = [op |-> "registerCar", socket |-> s, input |-> carInfo,
                       carsBefore |-> connectedCars,
                       statusBefore |-> carControlStatus, emits |-> emits]
    /\ UNCHANGED <<latestSensorData, sockets, nIngest, nCommands, nHeartbeat>>
    /\ UNCHANGED <<videoVars, supervisorVars, aiVars>>

\* connectedCars.get(id) for a key the map has
CarsGet(cars, id) ==
    cars[CHOOSE i \in 1..Len(cars) : cars[i].socketId = id].info

\* the payloads of carHeartbeat: a status, none, and no payload at all
HeartbeatPayloads == { Obj([status |-> Str("moving")]), Obj(<<>>), Undef }

\* data.status || 'active'
HeartbeatStatus(data) ==
    IF Truthy(Get(data, "status")) THEN Get(data, "status") ELSE Str("active")

\* mutant: a heartbeat from an unknown connection makes an entry for it
HeartbeatUpsert(cars, id, data, t) ==
    CarsSet(cars, id,
            Spread(IF CarsHas(cars, id) THEN CarsGet(cars, id) ELSE Obj(<<>>),
                   Obj([lastSeen |-> Date(t), status |-> HeartbeatStatus(data)])))

\* if (connectedCars.has(socket.id)) { carInfo.lastSeen = new Date();
\* carInfo.status = data.status || 'active'; connectedCars.set(...) }: the
\* entry is changed in place; reading data.status of an absent payload is a
\* TypeError, raised after lastSeen has been written
Heartbeat(cars, id, data, t) ==
    IF ~CarsHas(cars, id) THEN cars
    ELSE IF GetThrows(data)
    THEN CarsSet(cars, id,
                 Spread(CarsGet(cars, id), Obj([lastSeen |-> Date(t)])))
    ELSE CarsSet(cars, id,
                 Spread(CarsGet(cars, id),
                        Obj([lastSeen |-> Date(t),
                             status |-> HeartbeatStatus(data)])))

\* socket.on('carHeartbeat')
CarHeartbeat(s, data) ==
    /\ ~crashed
    /\ sockets[s] = "connected"
    /\ nHeartbeat < MaxHeartbeats
    /\ nHeartbeat' = nHeartbeat + 1
    /\ connectedCars' = Heartbeat(connectedCars, s, data, now + 1)
    /\ now' = IF CarsHas(connectedCars, s) THEN now + 1 ELSE now
    /\ crashed' = (CarsHas(connectedCars, s) /\ GetThrows(data))
    /\ last' = [op |-> "carHeartbeat", socket |-> s, input |-> data,
                carsBefore |-> connectedCars,
                statusBefore |-> carControlStatus, inboxBefore |-> inbox,
                emits |-> <<>>]
    /\ UNCHANGED <<latestSensorData, carControlStatus, sockets, inbox, nIngest,
                   nCommands, nRegister>>
    /\ UNCHANGED <<videoVars, supervisorVars, aiVars>>

CommandCodes == {"f", "b", "l", "r", "s", "q"}

\* mutant: any truthy command is taken
ValidCommandAnyTruthy(command) == Truthy(command)

\* !(!command || !['f', 'b', 'l', 'r', 's', 'q'].includes(command))
ValidCommand(command) ==
    /\ Truthy(command)
    /\ command.t = "string"
    /\ command.s \in CommandCodes

\* mutant: the time of the command is recorded, the command is not
CarControlUpdateTimeOnly(status, command, t) ==
    Spread(status, Obj([lastCommandTime |-> Date(t)]))

\* carControlStatus.lastCommand = command; .lastCommandTime = new Date()
CarControlUpdate(status, command, t) ==
    Spread(status, Obj([lastCommand |-> command, lastCommandTime |-> Date(t)]))

\* `${v}`: the text of a string, the digits of a number, the name of the rest
TemplateText(v) ==
    IF v.t = "string" THEN v.s
    ELSE IF v.t = "number" THEN Decimal(v.n)
    ELSE v.t

\* `Command '${command}' sent to ${connectedCars.size} car(s)`
CarControlMessage(command, cars) ==
    <<"Command '", TemplateText(command), "' sent to ">> \o Decimal(Len(cars))
        \o <<" car(s)">>

\* the bodies of POST /api/car/control: each code, codes outside the set,
\* falsy and non-string commands, and no command
CommandBodies ==
    { Obj([command |-> Str(c)]) : c \in CommandCodes \cup {"x", "F", "", "fb"} }
    \cup { Obj([command |-> Null]), Obj([command |-> Num(1)]), Obj(<<>>) }

\* POST /api/car/control
CarControl(body) ==
    /\ ~crashed
    /\ nCommands < MaxCommands
    /\ nCommands' = nCommands + 1
    /\ LET command == Get(body, "command")
       IN  IF ~ValidCommand(command)
           THEN /\ last' = [op |-> "carControl", input |-> body,
                            statusBefore |-> carControlStatus,
                            carsBefore |-> connectedCars,
                            connectedBefore |-> Connected,
                            inboxBefore |-> inbox, emits |-> <<>>,
                            response |-> [code |-> 400, success |-> FALSE]]
                /\ UNCHANGED <<carControlStatus, inbox, now>>
           ELSE LET emits == <<Emit(Connected, "carControl",
                                    Obj([command |-> command,
                                         timestamp |-> Date(now + 1)]))>>
                IN  /\ carControlStatus' =
                           CarControlUpdate(carControlStatus, command, now + 1)
                    /\ inbox' = Deliver(inbox, emits)
                    /\ now' = now + 1
                    /\ last' = [op |-> "carControl", input |-> body,
                                statusBefore |-> carControlStatus,
                                carsBefore |-> connectedCars,
                                connectedBefore |-> Connected,
                                inboxBefore |-> inbox, emits |-> emits,
                                response |->
                                    [code |-> 200, success |-> TRUE,
                                     message |-> CarControlMessage(command,
                                                                   connectedCars),
                                     command |-> command]]
    /\ UNCHANGED <<latestSensorData, connectedCars, sockets, crashed, nIngest,
                   nRegister, nHeartbeat>>
    /\ UNCHANGED <<videoVars, supervisorVars, aiVars>>

\* The command relay: every command body, few connections.
NextCommand ==
    \/ \E s \in ProducerIds : Connect(s)
    \/ \E s \in ProducerIds : Disconnect(s)
    \/ \E s \in ProducerIds : RegisterCar(s, Obj([carId |-> Str("CAR-1")]))
    \/ \E body \in CommandBodies : CarControl(body)

SpecCommand == Init /\ [][NextCommand]_vars

\* The producer registry: every connection, a few command bodies.
CarBodies == { Obj([command |-> Str("f")]), Obj([command |-> Str("x")]) }

NextCar ==
    \/ \E s \in SocketIds : Connect(s)
    \/ \E s \in SocketIds : Disconnect(s)
    \/ \E s \in SocketIds : \E carInfo \in CarInfos : RegisterCar(s, carInfo)
    \/ \E body \in CarBodies : CarControl(body)

SpecCar == Init /\ [][NextCar]_vars

\* GET /api/car/status
GetCarStatus ==
    /\ ~crashed
    /\ last' = [op |-> "carStatus",
                response |-> [success |-> TRUE,
                              data |-> CarStatusUpdate(carControlStatus,
                                                       connectedCars)]]
    /\ UNCHANGED <<ingestVars, videoVars, supervisorVars, carVars, aiVars>>

\* The producer registry under registrations, heartbeats and disconnects.
NextRegistry ==
    \/ GetCarStatus
    \/ \E s \in SocketIds : Connect(s)
    \/ \E s \in SocketIds : Disconnect(s)
    \/ \E s \in SocketIds : RegisterCar(s, Obj([carId |-> Str("CAR-1")]))
    \/ \E s \in SocketIds : \E data \in HeartbeatPayloads : CarHeartbeat(s, data)

SpecRegistry == Init /\ [][NextRegistry]_vars

\* Removal from the registries: consumers of both relays and channel
\* connections, their failures, closes and disconnects.  The relays and the
\* channel share no state, so a behaviour exercises one of the two.
ChannelIdle == \A s \in SocketIds : sockets[s] = "new"

RelayIdle ==
    /\ \A c \in ClientIds : http[c].state = "new"
    /\ \A u \in UploadIds : uploads[u].state = "new"

NextRemoval ==
    \/ /\ RelayIdle
       /\ \/ \E s \in SocketIds : Connect(s)
          \/ \E s \in SocketIds : RegisterCar(s, Obj([carId |-> Str("CAR-1")]))
          \/ \E s \in SocketIds : Disconnect(s)
    \/ /\ ChannelIdle
       /\ \/ \E c \in StreamClientIds : GetVideoStream(c)
          \/ \E c \in StreamClientIds : GetVideoMjpeg(c)
          \/ \E c \in StreamClientIds : ClientBreak(c)
          \/ \E c \in StreamClientIds : ReqError(c)
          \/ \E c \in StreamClientIds : ReqClose(c)
          \/ \E u \in FrameIds : PostVideoUpload(u)
          \/ \E u \in FrameIds : VideoUploadData(u)
          \/ \E u \in FrameIds : PostVideoMjpeg(u)
          \/ \E u \in FrameIds : MjpegEnd(u)

SpecRemoval == Init /\ [][NextRemoval]_vars

(***************************************************************************)
(* The transcoder supervisor.                                              *)
(***************************************************************************)
\* process ids are fresh: taken in order, never reused
FreshProc(p) ==
    /\ procs[p] = "unspawned"
    /\ \A q \in ProcIds : q < p => procs[q] # "unspawned"

\* mutant: start never finds a handle
AlreadyActiveNever(handle) == FALSE

\* if (rtmpProcess)
AlreadyActive(handle) == handle # 0

\* mutant: stop clears the handle and the flag without signalling
KillNothing(ps, p) == ps

\* rtmpProcess.kill('SIGTERM'): the process is told to end and ends later
Kill(ps, p) == [ps EXCEPT ![p] = IF @ = "running" THEN "signalled" ELSE @]

\* mutant: the close handler clears the handle and leaves the flag
ProcessClosedHandleOnly(handle, active) == [handle |-> 0, active |-> active]

\* mutant: the close handler clears the flag and leaves the handle
ProcessClosedFlagOnly(handle, active) == [handle |-> handle, active |-> FALSE]

\* rtmpProcess.on('close'): streamActive = false; rtmpProcess = null
ProcessClosed(handle, active) == [handle |-> 0, active |-> FALSE]

\* POST /api/stream/start
StreamStart ==
    /\ ~crashed
    /\ IF AlreadyActive(rtmpProcess)
       THEN /\ last' = [op |-> "streamStart", spawned |-> 0,
                        handleBefore |-> rtmpProcess,
                        activeBefore |-> streamActive, procsBefore |-> procs,
                        response |-> [success |-> FALSE,
                                      message |-> "Stream already active"]]
            /\ UNCHANGED supervisorVars
       ELSE \E p \in ProcIds :
              /\ FreshProc(p)
              /\ procs' = [procs EXCEPT ![p] = "running"]
              /\ rtmpProcess' = p
              /\ streamActive' = TRUE
              /\ last' = [op |-> "streamStart", spawned |-> p,
                          handleBefore |-> rtmpProcess,
                          activeBefore |-> streamActive, procsBefore |-> procs,
                          response |-> [success |-> TRUE,
                                        message |-> "RTMP server started"]]
    /\ UNCHANGED <<ingestVars, videoVars, carVars, aiVars>>

\* POST /api/stream/stop
StreamStop ==
    /\ ~crashed
    /\ IF rtmpProcess # 0
       THEN /\ procs' = Kill(procs, rtmpProcess)
            /\ rtmpProcess' = 0
            /\ streamActive' = FALSE
            /\ last' = [op |-> "streamStop", signalled |-> rtmpProcess,
                        handleBefore |-> rtmpProcess,
                        activeBefore |-> streamActive, procsBefore |-> procs,
                        response |-> [success |-> TRUE,
                                      message |-> "Stream stopped"]]
       ELSE /\ last' = [op |-> "streamStop", signalled |-> 0,
                        handleBefore |-> rtmpProcess,
                        activeBefore |-> streamActive, procsBefore |-> procs,
                        response |-> [success |-> TRUE,
                                      message |-> "Stream stopped"]]
            /\ UNCHANGED supervisorVars
    /\ UNCHANGED <<ingestVars, videoVars, carVars, aiVars>>

\* the 'close' event of a spawned process: it has exited, by itself or after
\* the signal, and the handler registered at its start runs
ProcessClose(p) ==
    /\ ~crashed
    /\ procs[p] \in {"running", "signalled"}
    /\ procs' = [procs EXCEPT ![p] = "exited"]
    /\ LET done == ProcessClosed(rtmpProcess, streamActive)
       IN  /\ rtmpProcess' = done.handle
           /\ streamActive' = done.active
    /\ last' = [op |-> "processClose", proc |-> p,
                handleBefore |-> rtmpProcess, activeBefore |-> streamActive,
                procsBefore |-> procs]
    /\ UNCHANGED <<ingestVars, videoVars, carVars, aiVars>>

\* GET /api/stream/status
StreamStatus ==
    /\ ~crashed
    /\ last' = [op |-> "streamStatus", handleBefore |-> rtmpProcess,
                activeBefore |-> streamActive, procsBefore |-> procs,
                response |-> [active |-> streamActive,
                              clients |-> [videoStream |-> Len(videoStreamClients),
                                           mjpeg |-> Len(mjpegClients)]]]
    /\ UNCHANGED <<ingestVars, videoVars, supervisorVars, carVars, aiVars>>

NextSupervisor ==
    \/ StreamStart
    \/ StreamStop
    \/ \E p \in ProcIds : ProcessClose(p)
    \/ StreamStatus

SpecSupervisor == Init /\ [][NextSupervisor]_vars

(***************************************************************************)
(* Channel video relay.                                                    *)
(***************************************************************************)
\* mutant: io.emit, which reaches the sender too
BroadcastEmitEcho(s, connected, ev, data) == Emit(connected, ev, data)

\* socket.broadcast.emit(ev, data): every connected socket but the sender
BroadcastEmit(s, connected, ev, data) == Emit(connected \ {s}, ev, data)

\* socket.on('videoFrame')
VideoFrame(s, frameData) ==
    /\ ~crashed
    /\ sockets[s] = "connected"
    /\ nChunks < MaxChunks
    /\ nChunks' = nChunks + 1
    /\ LET emits == <<BroadcastEmit(s, Connected, "videoFrame", frameData)>>
       IN  /\ inbox' = Deliver(inbox, emits)
           /\ last' = [op |-> "videoFrame", socket |-> s,
                       frameData |-> frameData, inboxBefore |-> inbox,
                       writtenBefore |-> written, emits |-> emits]
    /\ UNCHANGED <<latestSensorData, carControlStatus, connectedCars, sockets,
                   now, crashed, nIngest>>
    /\ UNCHANGED <<videoStreamClients, mjpegClients, http, written, uploads>>
    /\ UNCHANGED <<supervisorVars, carVars, aiVars>>

\* the payloads of videoFrame: a Buffer, a base64 string, or none
FramePayloads(k) == { Bytes(Chunk(k)), Str("/9j/4AAQ"), Undef }

NextFrame ==
    \/ \E s \in SocketIds : Connect(s)
    \/ \E s \in SocketIds : Disconnect(s)
    \/ \E s \in SocketIds : \E frameData \in FramePayloads(nChunks + 1) :
          VideoFrame(s, frameData)

SpecFrame == Init /\ [][NextFrame]_vars

\* Registered producers beside every other kind of event.
OtherEvents == nHeartbeat + nCommands + nIngest + nChunks

NextEviction ==
    \/ \E s \in SocketIds : Connect(s)
    \/ \E s \in SocketIds : Disconnect(s)
    \/ \E s \in SocketIds :
          /\ ~CarsHas(connectedCars, s)
          /\ RegisterCar(s, Obj([carId |-> Str("CAR-1")]))
    \/ \E s \in SocketIds :
          /\ OtherEvents < MaxOtherEvents
          /\ CarHeartbeat(s, Obj([status |-> Str("moving")]))
    \/ /\ OtherEvents < MaxOtherEvents
       /\ CarControl(Obj([command |-> Str("f")]))
    \/ \E body \in FanoutBodies(Reading) :
          /\ OtherEvents < MaxOtherEvents
          /\ PostSensors(body)
    \/ \E s \in SocketIds :
          /\ OtherEvents < MaxOtherEvents
          /\ VideoFrame(s, Str("/9j/4AAQ"))

SpecEviction == Init /\ [][NextEviction]_vars

\* Every video input beside every kind of video consumer.
NextBroadcast ==
    \/ \E s \in SocketIds : Connect(s)
    \/ \E c \in StreamClientIds : GetVideoStream(c)
    \/ \E c \in StreamClientIds : GetVideoMjpeg(c)
    \/ \E s \in SocketIds : VideoFrame(s, Bytes(Chunk(nChunks + 1)))
    \/ \E u \in FrameIds : PostVideoUpload(u)
    \/ \E u \in FrameIds : VideoUploadData(u)
    \/ \E u \in FrameIds : PostVideoMjpeg(u)
    \/ \E u \in FrameIds : MjpegData(u)
    \/ \E u \in FrameIds : MjpegEnd(u)

SpecBroadcast == Init /\ [][NextBroadcast]_vars

(***************************************************************************)
(* Image analysis: the data-URL parser and the external service.           *)
(***************************************************************************)
\* a non-empty string, kept as its pieces: a piece stands for a run of
\* characters that hold no line terminator, "\n" for a line terminator
Chars(pieces) == [t |-> "chars", c |-> pieces]

PartPieces == {"image/jpeg", "AAAA", ";base64,", "\n"}

\* the texts a data URL may carry as its mime type or as its payload
Parts == UNION { [1..n -> PartPieces] : n \in 1..MaxPartLen }

\* `data:<mime>;base64,<payload>`
DataUrl(mime, payload) == <<"data:">> \o mime \o <<";base64,">> \o payload

\* the strings sent as imageData: data URLs, and strings with no prefix, no
\* separator, an empty mime type, an empty payload, or text before the prefix
ImageStrings ==
    { DataUrl(m, q) : m \in Parts, q \in Parts }
    \cup Parts
    \cup { <<"data:">> \o q : q \in Parts }
    \cup { <<"data:", ";base64,">> \o q : q \in Parts }
    \cup { <<"data:">> \o m \o <<";base64,">> : m \in Parts }
    \cup { <<"x">> \o DataUrl(<<"image/jpeg">>, q) : q \in Parts }

\* `.` of a regular expression without the s flag takes no line terminator
NoLineTerminator(q) == \A i \in 1..Len(q) : q[i] # "\n"

\* the places of a `;base64,` at which /^data:(.+);base64,(.+)$/ can match:
\* `data:` first, one character or more on either side, none of them a line
\* terminator
Cuts(u) ==
    { i \in 3..(Len(u) - 1) :
        /\ u[1] = "data:"
        /\ u[i] = ";base64,"
        /\ NoLineTerminator(SubSeq(u, 2, i - 1))
        /\ NoLineTerminator(SubSeq(u, i + 1, Len(u))) }

\* mutant: the first group is lazy, (.+?)
MatchLazy(u) ==
    IF Cuts(u) = {} THEN Null
    ELSE LET i == CHOOSE i \in Cuts(u) : \A j \in Cuts(u) : i <= j
         IN  [t |-> "match", g1 |-> SubSeq(u, 2, i - 1),
              g2 |-> SubSeq(u, i + 1, Len(u))]

\* dataUrl.match(/^data:(.+);base64,(.+)$/): null, or the two groups; the
\* first group is greedy, so it ends at the last `;base64,` that lets the
\* rest match
Match(u) ==
    IF Cuts(u) = {} THEN Null
    ELSE LET i == CHOOSE i \in Cuts(u) : \A j \in Cuts(u) : j <= i
         IN  [t |-> "match", g1 |-> SubSeq(u, 2, i - 1),
              g2 |-> SubSeq(u, i + 1, Len(u))]

\* function fileToGenerativePart(dataUrl): Null stands for the Error thrown
\* when there is no match
fileToGenerativePart(dataUrl) ==
    LET match == Match(dataUrl.c)
    IN  IF match = Null THEN Null
        ELSE [inlineData |-> [data |-> match.g2, mimeType |-> match.g1]]

\* req.body of POST /api/ai/analyze-image: no imageData, a falsy one, one
\* that is no string, and strings
AnalyzeBodies ==
    { Obj(<<>>), Obj([imageData |-> Str("")]), Obj([imageData |-> Null]),
      Obj([imageData |-> Num(7)]) }
    \cup { Obj([imageData |-> Chars(u)]) : u \in ImageStrings }

\* POST /api/ai/analyze-image up to its first await: 400 without imageData;
\* imageData.substring and fileToGenerativePart run inside the try, so a
\* TypeError (imageData is no string) or the parser's Error ends in the catch
\* with 500; otherwise model.generateContent is called with the part.  The
\* handler keeps nothing between requests: a behaviour follows one request.
AnalyzeImage(body) ==
    /\ ~crashed
    /\ analysis.state = "none"
    /\ LET imageData == Get(body, "imageData")
       IN  IF ~Truthy(imageData)
           THEN analysis' = [state |-> "responded", body |-> body,
                             code |-> 400, generateCalls |-> <<>>]
           ELSE IF imageData.t # "chars"
                   \/ fileToGenerativePart(imageData) = Null
           THEN analysis' = [state |-> "responded", body |-> body,
                             code |-> 500, generateCalls |-> <<>>]
           ELSE analysis' = [state |-> "awaiting", body |-> body, code |-> 0,
                             generateCalls |->
                                 <<fileToGenerativePart(imageData)>>]
    /\ last' = [op |-> "analyzeImage", input |-> body]
    /\ UNCHANGED <<ingestVars, videoVars, supervisorVars, carVars>>

\* the promise of model.generateContent settles: { analysis: text }, or the
\* catch block's 500
GenerateSettled(fulfilled) ==
    /\ ~crashed
    /\ analysis.state = "awaiting"
    /\ analysis' = [analysis EXCEPT !.state = "responded",
                                    !.code = IF fulfilled THEN 200 ELSE 500]
    /\ last' = [op |-> "generateSettled", fulfilled |-> fulfilled]
    /\ UNCHANGED <<ingestVars, videoVars, supervisorVars, carVars>>

NextAnalyze ==
    \/ \E body \in AnalyzeBodies : AnalyzeImage(body)
    \/ \E fulfilled \in BOOLEAN : GenerateSettled(fulfilled)

SpecAnalyze == Init /\ [][NextAnalyze]_vars


(***************************************************************************)
(* Properties of the ingest normalizer.                                    *)
(***************************************************************************)
\* the handler that ran last was sensorData and it installed a snapshot
Installed == last.op = "sensorData" /\ last.outcome = "installed"

\* a packet that is null or absent, or an object without a device_id
LacksDeviceId(pkt) ==
    \/ pkt.t \in {"undefined", "null"}
    \/ pkt.t = "object" /\ "device_id" \notin DOMAIN pkt.f

\* a sub-object that is absent, or carries an error marker (an error field
\* holding a message; a null error field marks nothing)
GroupAbsentOrError(pkt, group) ==
    \/ group \notin DOMAIN pkt.f
    \/ pkt.f[group].t = "undefined"
    \/ /\ pkt.f[group].t = "object"
       /\ "error" \in DOMAIN pkt.f[group].f
       /\ pkt.f[group].f.error.t = "string"
       /\ pkt.f[group].f.error.s # ""

EnvFields == {"temperature", "humidity", "airPressure"}
ExtraFields == {"batteryLevel", "gpsCoordinates", "distanceSensor", "lightLevel"}

\* the packet's own name for a snapshot field of the environmental group
PacketEnvName(k) == IF k = "airPressure" THEN "pressure" ELSE k

\* C1: a sensorData packet that is null/absent or has no device_id leaves the
\* stored snapshot as it was and emits no sensorUpdate, whatever it contains.
C1_RejectedPacketChangesNothing ==
    (last.op = "sensorData" /\ LacksDeviceId(last.input)) =>
        /\ latestSensorData = last.pre
        /\ last.emits = <<>>
        /\ last.outcome = "rejected"

\* a packet without device_id but with readings was handled while a consumer
\* was connected and the store held a snapshot of an earlier ingest
C1_Witness ==
    /\ last.op = "sensorData"
    /\ LacksDeviceId(last.input)
    /\ last.input.t = "object"
    /\ "environmental" \in DOMAIN last.input.f
    /\ Connected # {}
    /\ latestSensorData # InitialSensorData

\* C2 (as claimed): a legacy POST body without an identifier is rejected: the
\* stored snapshot is not changed and no telemetry broadcast is made.
C2_LegacyRejectsMissingId ==
    (/\ last.op = "postSensors"
     /\ "roverId" \notin DOMAIN last.input.f
     /\ "device_id" \notin DOMAIN last.input.f) =>
        /\ latestSensorData = last.pre
        /\ last.emits = <<>>

\* C3: an accepted nested packet whose environmental sub-object is absent or
\* carries an error marker installs a snapshot whose temperature, humidity
\* and airPressure are those of the snapshot before it, not the packet's.
C3_EnvFallsBack ==
    (Installed /\ GroupAbsentOrError(last.input, "environmental")) =>
        \A k \in EnvFields :
            LET own == Get(Get(last.input, "environmental"), PacketEnvName(k))
            IN  /\ Get(latestSensorData, k) = Get(last.pre, k)
                /\ own.t # "undefined" => Get(latestSensorData, k) # own

\* the environmental group carried an error marker beside readings, and the
\* snapshot before it held readings of an earlier ingest
C3_Witness ==
    /\ Installed
    /\ GroupAbsentOrError(last.input, "environmental")
    /\ Truthy(Get(Get(last.input, "environmental"), "temperature"))
    /\ Get(last.pre, "temperature") # Get(InitialSensorData, "temperature")
    /\ Get(latestSensorData, "temperature") = Get(last.pre, "temperature")

\* the acceleration a valid motion group gives
PacketAcceleration(pkt) ==
    LET acc == Get(Get(pkt, "motion"), "accelerometer")
    IN  Obj([x |-> Get(acc, "x"), y |-> Get(acc, "y"), z |-> Get(acc, "z")])

\* C4: the environmental and the motion group are decided independently: in
\* each of the four combinations a valid group's fields are the packet's and
\* an invalid group's fields are those of the snapshot before.
C4_GroupsIndependent ==
    Installed =>
        /\ \A k \in EnvFields :
              Get(latestSensorData, k) =
                  IF GroupAbsentOrError(last.input, "environmental")
                  THEN Get(last.pre, k)
                  ELSE Get(Get(last.input, "environmental"), PacketEnvName(k))
        /\ Get(latestSensorData, "acceleration") =
              IF GroupAbsentOrError(last.input, "motion")
              THEN Get(last.pre, "acceleration")
              ELSE PacketAcceleration(last.input)

\* a mixed combination: the environmental group fell back to readings of an
\* earlier ingest while the motion group of the same packet was taken
C4_Witness ==
    /\ Installed
    /\ GroupAbsentOrError(last.input, "environmental")
    /\ ~GroupAbsentOrError(last.input, "motion")
    /\ Get(last.pre, "temperature") # Get(InitialSensorData, "temperature")
    /\ Get(latestSensorData, "acceleration") = PacketAcceleration(last.input)
    /\ Get(latestSensorData, "acceleration") # Get(last.pre, "acceleration")

\* C5: an accepted nested packet leaves batteryLevel, gpsCoordinates,
\* distanceSensor and lightLevel as they were, whatever the packet carries.
C5_ExtrasRetained ==
    Installed =>
        \A k \in ExtraFields : Get(latestSensorData, k) = Get(last.pre, k)

\* the packet carried its own battery level and the one retained came from
\* an earlier legacy POST
C5_Witness ==
    /\ Installed
    /\ Truthy(Get(last.input, "batteryLevel"))
    /\ Get(last.input, "batteryLevel") # Get(last.pre, "batteryLevel")
    /\ Get(last.pre, "batteryLevel") # Get(InitialSensorData, "batteryLevel")
    /\ Get(latestSensorData, "batteryLevel") = Get(last.pre, "batteryLevel")

\* C6: after any accepted ingest, legacy or nested, the stored snapshot has
\* status active and connection status connected.
C6_ActiveAndConnected ==
    (last.op = "postSensors" \/ Installed) =>
        /\ Get(latestSensorData, "status") = Str("active")
        /\ Get(latestSensorData, "connectionStatus") = Str("connected")

\* a legacy body that carried status warning / disconnected was accepted
C6_Witness ==
    /\ last.op = "postSensors"
    /\ Get(last.input, "status") = Str("warning")
    /\ Get(last.input, "connectionStatus") = Str("disconnected")
    /\ Get(latestSensorData, "status") = Str("active")

(***************************************************************************)
(* Properties of the fan-out to channel consumers.                         *)
(***************************************************************************)
SensorUpdates(box) == SelectSeq(box, LAMBDA e : e.ev = "sensorUpdate")

\* C7: when a channel consumer connects while the store holds S, the first
\* sensorUpdate it receives carries S and is sent within the connection
\* handler (before any later update), and no other consumer receives
\* anything because of that connection.
C7_NewConsumerCatchUp ==
    [][\A s \in SocketIds :
          (sockets[s] = "new" /\ sockets'[s] = "connected") =>
              /\ SensorUpdates(inbox'[s]) # <<>>
              /\ Head(SensorUpdates(inbox'[s])).data = latestSensorData
              /\ latestSensorData' = latestSensorData
              /\ \A r \in SocketIds \ {s} : inbox'[r] = inbox[r]]_vars

\* a consumer connected after an ingest, beside a consumer that was there
\* before it
C7_Witness ==
    /\ last.op = "connection"
    /\ latestSensorData # InitialSensorData
    /\ Head(SensorUpdates(inbox[last.socket])).data = latestSensorData
    /\ \E r \in Connected \ {last.socket} :
          /\ Len(SensorUpdates(inbox[r])) >= 2
          /\ Head(SensorUpdates(inbox[r])).data = InitialSensorData


(***************************************************************************)
(* Properties of the HTTP video relay.                                     *)
(***************************************************************************)
\* the members of a consumer list whose write does not fail
Healthy(clients) == SelectSeq(clients, Writable)

\* C8 (as claimed): when a frame is broadcast to the MJPEG list, exactly the
\* failing consumers are removed and every consumer whose write does not
\* fail receives the complete frame in that same broadcast.
C8_MjpegIsolation ==
    last.op = "mjpegEnd" =>
        /\ mjpegClients = Healthy(last.clientsBefore)
        /\ \A i \in 1..Len(last.clientsBefore) :
              LET c == last.clientsBefore[i]
              IN  Writable(c) =>
                      written[c] = last.writtenBefore[c]
                                       \o MjpegFrameWrites(last.frameData)

\* C9: when a chunk is forwarded to the raw byte-stream map, exactly the
\* failing consumers are removed and every other registered consumer
\* receives that chunk in the same pass.
C9_StreamIsolation ==
    last.op = "videoUploadData" =>
        /\ videoStreamClients = Healthy(last.clientsBefore)
        /\ \A c \in ClientIds :
              written[c] =
                  IF SeqHas(last.clientsBefore, c) /\ Writable(c)
                  THEN Append(last.writtenBefore[c], Bytes(last.chunk))
                  ELSE last.writtenBefore[c]

\* a chunk was forwarded to a map whose first consumer failed and whose
\* second did not: the first is gone, the second has the chunk
C9_Witness ==
    /\ last.op = "videoUploadData"
    /\ Len(last.clientsBefore) >= 2
    /\ ~Writable(last.clientsBefore[1])
    /\ Writable(last.clientsBefore[2])
    /\ videoStreamClients = <<last.clientsBefore[2]>>
    /\ written[last.clientsBefore[2]] # <<>>

\* the number a run of decimal digits denotes; -1 when a piece is no digit
RECURSIVE ParseDecimal(_)
ParseDecimal(pieces) ==
    IF pieces = <<>> THEN 0
    ELSE LET d == { i \in 1..10 : DigitChars[i] = pieces[Len(pieces)] }
             rest == ParseDecimal(SubSeq(pieces, 1, Len(pieces) - 1))
         IN  IF d = {} \/ rest < 0 THEN -1
             ELSE 10 * rest + (CHOOSE i \in d : TRUE) - 1

IsText(w, pieces) == "text" \in DOMAIN w /\ w.text = pieces

\* "Content-Length: <n>\r\n\r\n": the header line and the blank line
IsContentLength(w, n) ==
    /\ "text" \in DOMAIN w
    /\ Len(w.text) >= 4
    /\ w.text[1] = "Content-Length: "
    /\ w.text[Len(w.text) - 1] = "\r\n"
    /\ w.text[Len(w.text)] = "\r\n"
    /\ ParseDecimal(SubSeq(w.text, 2, Len(w.text) - 2)) = n

\* a stream made of whole frames, each framed as the claim says
RECURSIVE WellFramed(_)
WellFramed(w) ==
    \/ w = <<>>
    \/ /\ Len(w) >= 5
       /\ IsText(w[1], <<"--myboundary", "\r\n">>)
       /\ IsText(w[2], <<"Content-Type: image/jpeg", "\r\n">>)
       /\ "bytes" \in DOMAIN w[4]
       /\ IsContentLength(w[3], Len(w[4].bytes))
       /\ IsText(w[5], <<"\r\n">>)
       /\ WellFramed(SubSeq(w, 6, Len(w)))

\* C10: for every frame of N bytes delivered to a multipart consumer the
\* stream receives, in order and with nothing in between, the boundary line,
\* the content-type line, a content-length header of value N, a blank line,
\* the N frame bytes and a line terminator.
C10_FrameExact ==
    /\ \A c \in ClientIds : WellFramed(written[c])
    /\ last.op = "mjpegEnd" =>
          \A c \in ClientIds :
              \/ written[c] = last.writtenBefore[c]
              \/ /\ Len(written[c]) = Len(last.writtenBefore[c]) + 5
                 /\ SubSeq(written[c], 1, Len(last.writtenBefore[c]))
                        = last.writtenBefore[c]
                 /\ written[c][Len(written[c]) - 1] = Bytes(last.frameData)

\* a consumer was sent a frame of two chunks, twelve bytes long
C10_Witness ==
    /\ last.op = "mjpegEnd"
    /\ Len(last.frameData) >= 10
    /\ \E c \in ClientIds :
          /\ Len(written[c]) = 5
          /\ written[c][4] = Bytes(last.frameData)
          /\ IsContentLength(written[c][3], Len(last.frameData))


(***************************************************************************)
(* Properties of the command relay.                                        *)
(***************************************************************************)
\* the body names no command, or one that is not among the six codes
CommandMissingOrUnknown(body) ==
    LET command == Get(body, "command")
    IN  \/ command.t \in {"undefined", "null"}
        \/ command.t # "string"
        \/ command.s \notin {"f", "b", "l", "r", "s", "q"}

\* C11: a command dispatch with a missing command or a code outside
\* {f, b, l, r, s, q} fails with a 400 result, leaves last-command and
\* last-command-time unchanged and sends no carControl event to anyone.
C11_InvalidCommandRejected ==
    (last.op = "carControl" /\ CommandMissingOrUnknown(last.input)) =>
        /\ last.response.code = 400
        /\ last.response.success = FALSE
        /\ Get(carControlStatus, "lastCommand")
               = Get(last.statusBefore, "lastCommand")
        /\ Get(carControlStatus, "lastCommandTime")
               = Get(last.statusBefore, "lastCommandTime")
        /\ inbox = last.inboxBefore

\* the command "x" was refused while a connection was open
C11_Witness ==
    /\ last.op = "carControl"
    /\ last.input = Obj([command |-> Str("x")])
    /\ last.response.code = 400
    /\ Connected # {}

\* C12: a command dispatch with a valid code sets last-command to that code,
\* delivers a carControl event carrying the command and an issue timestamp
\* to every producer registered at that moment, and reports a count equal to
\* the number of registered producers.
C12_ValidCommandRelayed ==
    (last.op = "carControl" /\ ~CommandMissingOrUnknown(last.input)) =>
        LET command == Get(last.input, "command")
        IN  /\ last.response.success = TRUE
            /\ Get(carControlStatus, "lastCommand") = command
            /\ \A i \in 1..Len(last.carsBefore) :
                  LET s == last.carsBefore[i].socketId
                      got == inbox[s]
                  IN  /\ Len(got) = Len(last.inboxBefore[s]) + 1
                      /\ SubSeq(got, 1, Len(got) - 1) = last.inboxBefore[s]
                      /\ got[Len(got)].ev = "carControl"
                      /\ Get(got[Len(got)].data, "command") = command
                      /\ Get(got[Len(got)].data, "timestamp").t = "date"
            /\ LET m == last.response.message
               IN  /\ Len(m) >= 5
                   /\ ParseDecimal(SubSeq(m, 4, Len(m) - 1))
                          = Len(last.carsBefore)

\* a valid command was relayed while one connection was a registered
\* producer and another was not
C12_Witness ==
    /\ last.op = "carControl"
    /\ last.response.success = TRUE
    /\ Len(last.carsBefore) = 1
    /\ Cardinality(last.connectedBefore) = 2
    /\ Get(carControlStatus, "lastCommand") = Str("f")


(***************************************************************************)
(* Properties of the registries.                                           *)
(***************************************************************************)
\* C13: removing a consumer or producer is idempotent: a second removal of
\* the same id (close after error, close after write-failure pruning,
\* disconnect of a socket that never registered) raises no error and leaves
\* the membership and counts of every registry unchanged.
C13_RemovalIdempotent ==
    /\ (/\ last.op \in {"reqClose", "reqError"}
        /\ ~SeqHas(last.streamBefore, last.client)
        /\ ~SeqHas(last.mjpegBefore, last.client)) =>
           /\ videoStreamClients = last.streamBefore
           /\ mjpegClients = last.mjpegBefore
           /\ ~crashed
    /\ (last.op = "disconnect" /\ ~CarsHas(last.carsBefore, last.socket)) =>
           /\ connectedCars = last.carsBefore
           /\ carControlStatus = last.statusBefore
           /\ last.emits = <<>>
           /\ ~crashed

\* a raw-stream consumer that had already left its registry is closed while
\* another consumer is still registered
C13_Witness ==
    /\ last.op = "reqClose"
    /\ http[last.client].route = "video-stream"
    /\ ~SeqHas(last.streamBefore, last.client)
    /\ last.streamBefore # <<>>
    /\ videoStreamClients = last.streamBefore


(***************************************************************************)
(* Properties of the transcoder supervisor.                                *)
(***************************************************************************)
\* C14: stream start while a transcoder process handle is already held
\* spawns no new process, changes neither the handle nor the active flag,
\* and returns the 'already active' (unsuccessful) result.
C14_StartWhileHeld ==
    (last.op = "streamStart" /\ last.handleBefore # 0) =>
        /\ last.spawned = 0
        /\ procs = last.procsBefore
        /\ rtmpProcess = last.handleBefore
        /\ streamActive = last.activeBefore
        /\ last.response.success = FALSE
        /\ last.response.message = "Stream already active"

\* a start request found the handle of a running process
C14_Witness ==
    /\ last.op = "streamStart"
    /\ last.handleBefore # 0
    /\ procs[last.handleBefore] = "running"

\* C15: in every reachable state, after any interleaving of start, stop and
\* asynchronous process-exit events, if the stream status reports active
\* then the process that backs it has not exited.
C15_ActiveImpliesNotExited ==
    /\ streamActive => (rtmpProcess # 0 /\ procs[rtmpProcess] # "exited")
    /\ (last.op = "streamStatus" /\ last.response.active) =>
           (rtmpProcess # 0 /\ procs[rtmpProcess] # "exited")

\* the status reports active after one process has exited and another has
\* been stopped
C15_Witness ==
    /\ last.op = "streamStatus"
    /\ last.response.active
    /\ \E p \in ProcIds : procs[p] = "exited"
    /\ \E p \in ProcIds : procs[p] = "signalled"

\* C16: stream stop, when a handle is held, sends the termination signal to
\* that process and clears the handle and the active flag; when no handle is
\* held it sends no signal and changes nothing; in both cases it reports
\* success, so repeated stops are equivalent to one.
C16_StopClears ==
    last.op = "streamStop" =>
        /\ last.response.success = TRUE
        /\ rtmpProcess = 0
        /\ streamActive = FALSE
        /\ IF last.handleBefore # 0
           THEN /\ last.signalled = last.handleBefore
                /\ procs = [last.procsBefore EXCEPT
                               ![last.handleBefore] = "signalled"]
           ELSE /\ last.signalled = 0
                /\ procs = last.procsBefore
                /\ streamActive = last.activeBefore

\* a stop request that found no handle, after an earlier stop whose process
\* has not yet exited
C16_Witness ==
    /\ last.op = "streamStop"
    /\ last.handleBefore = 0
    /\ \E p \in ProcIds : procs[p] = "signalled"


(***************************************************************************)
(* Properties of the telemetry fan-out.                                    *)
(***************************************************************************)
\* C17: for any sequence of accepted ingest events from the legacy POST path
\* and the sensorData path, each connected consumer receives the
\* corresponding sensorUpdate events in the order in which the events were
\* accepted and installed: the event of each accepted ingest is placed after
\* every sensorUpdate the consumer was sent before.
C17_BroadcastInAcceptanceOrder ==
    [][(/\ nIngest' = nIngest + 1
        /\ \/ last'.op = "postSensors"
           \/ last'.op = "sensorData" /\ last'.outcome = "installed") =>
          \A s \in Connected :
              SensorUpdates(inbox'[s]) =
                  Append(SensorUpdates(inbox[s]),
                         Event("sensorUpdate", latestSensorData'))]_vars

\* a consumer holds its catch-up event, then the event of a legacy POST,
\* then the event of a sensorData packet accepted after it
C17_Witness ==
    /\ last.op = "sensorData"
    /\ last.outcome = "installed"
    /\ \E s \in Connected :
          LET u == SensorUpdates(inbox[s])
          IN  /\ Len(u) = 3
              /\ u[1].data = InitialSensorData
              /\ Get(u[2].data, "roverId") = Str("ROVER-002")
              /\ u[3].data = latestSensorData
              /\ Get(u[3].data, "roverId") = Str("PI-1")

\* C18: at every handler boundary, for every connected channel consumer, the
\* payload of the last sensorUpdate sent to it equals the snapshot currently
\* held in the store.
C18_ConsumersHoldCurrent ==
    \A s \in Connected :
        LET u == SensorUpdates(inbox[s])
        IN  /\ u # <<>>
            /\ u[Len(u)].data = latestSensorData

\* two consumers, one of which connected before an ingest and one after it,
\* both hold the snapshot that a second ingest installed
C18_Witness ==
    /\ nIngest = 2
    /\ Cardinality(Connected) = 2
    /\ \E s, r \in Connected :
          /\ Len(SensorUpdates(inbox[s])) = 3
          /\ Len(SensorUpdates(inbox[r])) = 2
          /\ SensorUpdates(inbox[r])[2].data = latestSensorData

\* C19 (as claimed): in every reachable state the snapshot returned by a read
\* or sent in a sensorUpdate has a defined value for every field of the
\* telemetry snapshot.
C19_SnapshotComplete ==
    /\ \A k \in SnapshotFields : Get(latestSensorData, k).t # "undefined"
    /\ \A s \in SocketIds : \A i \in 1..Len(inbox[s]) :
          inbox[s][i].ev = "sensorUpdate" =>
              \A k \in SnapshotFields : Get(inbox[s][i].data, k).t # "undefined"

(***************************************************************************)
(* Properties of the channel video relay.                                  *)
(***************************************************************************)
\* C20: a videoFrame event submitted by a channel client is delivered to
\* every other connected channel client and never back to the client that
\* submitted it.
C20_FrameToOthersOnly ==
    last.op = "videoFrame" =>
        \A r \in SocketIds :
            inbox[r] =
                IF r \in Connected /\ r # last.socket
                THEN Append(last.inboxBefore[r],
                            Event("videoFrame", last.frameData))
                ELSE last.inboxBefore[r]

\* a frame was relayed from one connected client to another
C20_Witness ==
    /\ last.op = "videoFrame"
    /\ \E r \in Connected :
          /\ r # last.socket
          /\ inbox[r][Len(inbox[r])] = Event("videoFrame", last.frameData)
    /\ \A i \in 1..Len(inbox[last.socket]) :
          inbox[last.socket][i].ev # "videoFrame"


(***************************************************************************)
(* Properties of the video fan-out.                                        *)
(***************************************************************************)
\* the video inputs: a channel frame, a raw chunk, a complete multipart frame
VideoInput == last.op \in {"videoFrame", "videoUploadData", "mjpegEnd"}

\* C21 (as claimed): a frame submitted on any video input is pushed to every
\* video consumer of every transport kind: every channel client (but the
\* sender), every raw byte-stream client and every multipart-stream client
\* has been sent something by the handler of that input.
C21_FrameToEveryKind ==
    VideoInput =>
        /\ \A s \in Connected :
              (last.op = "videoFrame" => s # last.socket) =>
                  /\ Len(inbox[s]) > Len(last.inboxBefore[s])
                  /\ inbox[s][Len(inbox[s])].ev = "videoFrame"
        /\ \A c \in ClientIds :
              (SeqHas(videoStreamClients, c) \/ SeqHas(mjpegClients, c)) =>
                  Len(written[c]) > Len(last.writtenBefore[c])


(***************************************************************************)
(* Properties of the producer registry.                                    *)
(***************************************************************************)
\* C22: a carHeartbeat from a connection that is not a registered producer
\* changes nothing: the producer registry, its size and the car-control
\* counters are all unchanged and no entry is created.
C22_UnknownHeartbeatNoOp ==
    (last.op = "carHeartbeat" /\ ~CarsHas(last.carsBefore, last.socket)) =>
        /\ connectedCars = last.carsBefore
        /\ carControlStatus = last.statusBefore
        /\ inbox = last.inboxBefore
        /\ ~crashed

\* a heartbeat came from a connection that is not registered while another
\* connection is
C22_Witness ==
    /\ last.op = "carHeartbeat"
    /\ ~CarsHas(last.carsBefore, last.socket)
    /\ Len(last.carsBefore) = 1
    /\ last.input = Obj([status |-> Str("moving")])

\* the entries the registry holds for one connection
EntriesOf(cars, id) == { i \in 1..Len(cars) : cars[i].socketId = id }

\* C23: after any sequence of registerCar, carHeartbeat and disconnect
\* events the producer registry holds at most one registration per
\* connection identifier.
C23_OneRegistrationPerConnection ==
    \A s \in SocketIds : Cardinality(EntriesOf(connectedCars, s)) <= 1

\* a connection that was registered registers again and still has one entry
C23_Witness ==
    /\ last.op = "registerCar"
    /\ CarsHas(last.carsBefore, last.socket)
    /\ Cardinality(EntriesOf(connectedCars, last.socket)) = 1

\* C24: a registration leaves the producer registry only in the disconnect
\* handler of the connection it belongs to: no heartbeat, command dispatch,
\* sensor ingest, video frame, registration or disconnect of another
\* connection removes it.
C24_OnlyOwnDisconnectRemoves ==
    [][\A s \in SocketIds :
          (CarsHas(connectedCars, s) /\ ~CarsHas(connectedCars', s)) =>
              (last'.op = "disconnect" /\ last'.socket = s)]_vars

\* a registered connection disconnected, and another registration is still
\* held after it and after events of other kinds
C24_Witness ==
    /\ last.op = "disconnect"
    /\ CarsHas(last.carsBefore, last.socket)
    /\ \E s \in SocketIds : s # last.socket /\ CarsHas(connectedCars, s)
    /\ OtherEvents > 0


(***************************************************************************)
(* Properties of the HTTP consumers' lifetime and of the uploads.          *)
(***************************************************************************)
\* a handler that writes to the HTTP consumers
HttpBroadcast == last.op \in {"videoUploadData", "mjpegEnd"}

\* C25: a raw or multipart consumer whose request has signalled close is in
\* neither consumer registry, and a broadcast that runs after the close writes
\* nothing to it.
C25_ClosedConsumerGone ==
    \A c \in ClientIds :
        http[c].state = "closed" =>
            /\ ~SeqHas(videoStreamClients, c)
            /\ ~SeqHas(mjpegClients, c)
            /\ HttpBroadcast => written[c] = last.writtenBefore[c]

\* a consumer that had been served closed, and a later broadcast served
\* another consumer
C25_Witness ==
    /\ HttpBroadcast
    /\ \E c \in ClientIds : http[c].state = "closed" /\ written[c] # <<>>
    /\ \E d \in ClientIds : written[d] # last.writtenBefore[d]

\* C26 (as claimed): a multipart upload delivers nothing while its chunks
\* arrive: each chunk is put after the bytes received before it and no
\* consumer is written to.  At the end of the upload the bytes received, in
\* arrival order, are sent as exactly one framed frame to each multipart
\* consumer registered at that moment (whose connection still takes a write),
\* and to nobody else.
C26_BufferedUntilEnd ==
    /\ last.op = "mjpegData" =>
          /\ written = last.writtenBefore
          /\ uploads[last.upload].frameData = last.frameBefore \o last.chunk
    /\ last.op = "mjpegEnd" =>
          /\ last.frameData = uploads[last.upload].frameData
          /\ \A c \in ClientIds :
                written[c] =
                    IF SeqHas(last.clientsBefore, c) /\ Writable(c)
                    THEN last.writtenBefore[c]
                           \o MjpegFrameWrites(last.frameData)
                    ELSE last.writtenBefore[c]

\* the place of a written chunk in the order of arrival; 0 for anything that
\* is not a chunk that arrived
ArrivalIndex(w) ==
    IF \E k \in 1..nChunks : w = Bytes(Chunk(k))
    THEN CHOOSE k \in 1..nChunks : w = Bytes(Chunk(k))
    ELSE 0

\* C27: a chunk of a raw upload is written, in the handler of its arrival and
\* so before the next chunk is taken, to every raw consumer registered then
\* (whose connection still takes a write), and what a consumer has been sent
\* is chunks that arrived, each once, in the order of their arrival.
C27_ChunksForwardedInOrder ==
    /\ last.op = "videoUploadData" =>
          \A c \in ClientIds :
              (SeqHas(last.clientsBefore, c) /\ Writable(c)) =>
                  /\ Len(written[c]) = Len(last.writtenBefore[c]) + 1
                  /\ written[c][Len(written[c])] = Bytes(Chunk(nChunks))
                  /\ last.chunk = Chunk(nChunks)
    /\ \A c \in StreamClientIds :
          http[c].route = "video-stream" =>
              /\ \A i \in 1..Len(written[c]) : ArrivalIndex(written[c][i]) > 0
              /\ \A i, j \in 1..Len(written[c]) :
                    i < j => ArrivalIndex(written[c][i])
                                < ArrivalIndex(written[c][j])

\* a consumer has been sent the first and then the second chunk of an upload
C27_Witness ==
    /\ last.op = "videoUploadData"
    /\ \E c \in StreamClientIds :
          written[c] = <<Bytes(Chunk(1)), Bytes(Chunk(2))>>


(***************************************************************************)
(* Properties of ingest on packets of unexpected shape, and of time.       *)
(***************************************************************************)
\* C28 (as claimed): a sensorData packet that carries a device identifier,
\* whatever the shape of the rest, never ends the process: it is either
\* rejected, leaving the snapshot and every connection's events as they
\* were, or merged into a snapshot.
C28_MalformedShapeTolerated ==
    (last.op = "sensorData" /\ ~LacksDeviceId(last.input)) =>
        /\ ~crashed
        /\ last.outcome \in {"rejected", "installed"}
        /\ last.outcome = "rejected" =>
              (latestSensorData = last.pre /\ last.emits = <<>>)

\* the timestamp a packet carries: the timestamp field of a nested packet,
\* the lastUpdate field of a flat one
PacketTimestamp(pkt) ==
    IF Truthy(Get(pkt, "timestamp")) THEN Get(pkt, "timestamp")
    ELSE Get(pkt, "lastUpdate")

\* C29 (as claimed): after every accepted ingest of a packet that carries a
\* timestamp, by the nested path or by the legacy flat path, the snapshot's
\* lastUpdate is the time the packet carries.
C29_LastUpdateIsPacketTimestamp ==
    ((Installed \/ last.op = "postSensors")
        /\ Truthy(PacketTimestamp(last.input))) =>
        Get(latestSensorData, "lastUpdate")
            = NewDate(PacketTimestamp(last.input))


(***************************************************************************)
(* Properties of the data-URL parser and of image analysis.                *)
(***************************************************************************)
\* the string an image-analysis request carried, <<>> when it carried none
ImageText ==
    LET imageData == Get(analysis.body, "imageData")
    IN  IF imageData.t = "chars" THEN imageData.c ELSE <<>>

\* the ways of reading a string as data:<mime>;base64,<payload> with a
\* non-empty mime type and payload: the places of the separator
Readings(u) ==
    { i \in 3..(Len(u) - 1) : u[1] = "data:" /\ u[i] = ";base64," }

MimeAt(u, i) == SubSeq(u, 2, i - 1)
PayloadAt(u, i) == SubSeq(u, i + 1, Len(u))

\* the one call of the external service made with that mime type and payload
CalledWith(mime, payload) ==
    analysis.generateCalls
        = <<[inlineData |-> [data |-> payload, mimeType |-> mime]]>>

\* the request failed and the external service was never called
FailedUncalled ==
    /\ analysis.state = "responded"
    /\ analysis.code \in {400, 500}
    /\ analysis.generateCalls = <<>>

\* C30 (as claimed): for every input data:<mime>;base64,<payload> with a
\* non-empty mime type and payload the parser returns exactly that mime type
\* and that payload; for every input that is not of that shape it fails, and
\* the request fails without the external service being called.
C30_EveryDataUrlParsed ==
    analysis.state # "none" =>
        /\ \A i \in Readings(ImageText) :
              CalledWith(MimeAt(ImageText, i), PayloadAt(ImageText, i))
        /\ Readings(ImageText) = {} => FailedUncalled

\* C30 (amended): for every input data:<mime>;base64,<payload> whose mime
\* type and payload are non-empty and hold no line terminator, and whose
\* payload does not hold `;base64,`, the parser returns exactly that mime
\* type and that payload, and they are what the external service is called
\* with; for every input that is not of that shape, or that holds a line
\* terminator, the parser fails and the request fails without the external
\* service being called.
C30_SingleLineDataUrlParsed ==
    analysis.state # "none" =>
        /\ \A i \in Readings(ImageText) :
              (/\ NoLineTerminator(ImageText)
               /\ \A j \in 1..Len(PayloadAt(ImageText, i)) :
                     PayloadAt(ImageText, i)[j] # ";base64,") =>
                  CalledWith(MimeAt(ImageText, i), PayloadAt(ImageText, i))
        /\ (Readings(ImageText) = {} \/ ~NoLineTerminator(ImageText)) =>
              FailedUncalled

\* data:image/jpeg;base64,AAAA was parsed into image/jpeg and AAAA and the
\* external service was called with them
C30_Witness ==
    /\ analysis.state = "awaiting"
    /\ ImageText = <<"data:", "image/jpeg", ";base64,", "AAAA">>
    /\ CalledWith(<<"image/jpeg">>, <<"AAAA">>)


(***************************************************************************)
(* Properties of the supervisor under interleaved start, stop and exit.    *)
(***************************************************************************)
\* the transcoders that are alive: spawned and not yet exited
Alive == { p \in ProcIds : procs[p] \in {"running", "signalled"} }

\* C31 (as claimed): the exit of a process that had been stopped never
\* clears the handle or the active flag of a process started after it: a
\* transcoder that was started, is still running and has not been stopped is
\* the one whose handle the supervisor holds, and the stream is reported
\* active.
C31_StaleExitKeepsHandle ==
    \A p \in ProcIds :
        procs[p] = "running" => (rtmpProcess = p /\ streamActive)

\* C32 (as claimed): at most one transcoder spawned by the supervisor is
\* alive in any state, also when a start comes after a stop and before the
\* stopped process has exited.
C32_AtMostOneAlive == Cardinality(Alive) <= 1

\* C33: at every handler boundary, after any sequence of start, stop and exit
\* events, the active flag is true exactly when a process handle is held.
C33_ActiveIffHandle == streamActive <=> (rtmpProcess # 0)

\* the exit of a stopped process came while a later process was held: the
\* handle and the flag were cleared together
C33_Witness ==
    /\ last.op = "processClose"
    /\ last.handleBefore # 0
    /\ last.handleBefore # last.proc
    /\ last.activeBefore
    /\ rtmpProcess = 0
    /\ ~streamActive


(***************************************************************************)
(* Properties of the producer counters.                                    *)
(***************************************************************************)
\* a car status, as held or as reported, whose two counters are n
CountersAre(status, n) ==
    /\ Get(status, "totalCars") = Num(n)
    /\ Get(status, "activeCars") = Num(n)

\* C34: at every handler boundary, after any sequence of connect,
\* registerCar, carHeartbeat and disconnect events, totalCars and activeCars,
\* as held, as reported by the car status request and as sent in the
\* carStatusUpdate of a registration, both equal the number of entries of
\* the producer registry.
C34_CountersEqualRegistrySize ==
    /\ CountersAre(carControlStatus, Len(connectedCars))
    /\ last.op = "carStatus" =>
          /\ CountersAre(last.response.data.status, Len(connectedCars))
          /\ Len(last.response.data.connectedCars) = Len(connectedCars)
    /\ last.op = "registerCar" =>
          \A i \in 1..Len(last.emits) :
              CountersAre(last.emits[i].data.status, Len(connectedCars))

\* the car status was asked for when one of two registered producers had
\* disconnected
C34_Witness ==
    /\ last.op = "carStatus"
    /\ Len(connectedCars) = 1
    /\ \E s \in SocketIds :
          sockets[s] = "disconnected" /\ ~CarsHas(connectedCars, s)
    /\ nRegister = 2
    /\ CountersAre(last.response.data.status, 1)


(***************************************************************************)
(* Properties of the snapshot's liveness fields over time.                 *)
(***************************************************************************)
\* the snapshot says neither inactive nor disconnected
Live(snapshot) ==
    /\ Get(snapshot, "status") # Str("inactive")
    /\ Get(snapshot, "connectionStatus") # Str("disconnected")

\* C35: an accepted ingest packet leaves the snapshot neither inactive nor
\* disconnected, and no later event, the disconnect of every connection
\* included, brings either value back.
C35_NeverBackToInactive ==
    /\ []((last.op = "postSensors" \/ Installed) => Live(latestSensorData))
    /\ [][Live(latestSensorData) => Live(latestSensorData')]_vars

\* a packet was accepted on the channel and every connection has since
\* disconnected: the snapshot still says active and connected
C35_Witness ==
    /\ last.op = "disconnect"
    /\ \A s \in SocketIds : sockets[s] = "disconnected"
    /\ Get(latestSensorData, "roverId") = Str("PI-1")
    /\ Get(latestSensorData, "status") = Str("active")
    /\ Get(latestSensorData, "connectionStatus") = Str("connected")


(***************************************************************************)
(* Properties of multipart uploads in flight together.                     *)
(***************************************************************************)
\* C36: with several multipart uploads in flight and their chunks
\* interleaved, the bytes an upload holds change only when a chunk of that
\* upload arrives, by that chunk being put at their end; every multipart
\* consumer's stream is a run of whole frames, the five writes of a frame
\* next to each other, and the frame an ending upload sends holds that
\* upload's bytes.
C36_UploadsKeptApart ==
    /\ [][\A u \in UploadIds :
             uploads'[u].frameData # uploads[u].frameData =>
                 /\ last'.op = "mjpegData"
                 /\ last'.upload = u
                 /\ uploads'[u].frameData
                        = uploads[u].frameData \o last'.chunk]_vars
    /\ [](/\ \A c \in ClientIds : WellFramed(written[c])
          /\ last.op = "mjpegEnd" =>
                /\ last.frameData = uploads[last.upload].frameData
                /\ \A c \in ClientIds :
                      \/ written[c] = last.writtenBefore[c]
                      \/ written[c] = last.writtenBefore[c]
                                        \o MjpegFrameWrites(last.frameData))

\* two uploads were in flight together, each was given one chunk, the second
\* ended first: a consumer holds the second upload's frame, whole, and then
\* the first upload's
C36_Witness ==
    /\ last.op = "mjpegEnd"
    /\ last.upload = 1
    /\ uploads[1].frameData = Chunk(1)
    /\ uploads[2].frameData = Chunk(2)
    /\ \E c \in StreamClientIds :
          written[c] = MjpegFrameWrites(Chunk(2)) \o MjpegFrameWrites(Chunk(1))

====
